---- MODULE Spec2Model ----
(***************************************************************************)
(* Model of hedeqiang/sonar: the block-range poller (watcher/poller.go),   *)
(* the orchestrator's Watch / Shutdown (sonar.go) and the cursor they      *)
(* share: one chain, one orchestrator process that may crash and be        *)
(* restarted on the same persisted cursor (Spec, SpecModestBatch,          *)
(* LiveSpec).  The components that stand on their own have a              *)
(* specification each: the EVM driver's FetchLogs (DriverSpec), the        *)
(* circuit breaker (BreakerSpec), Sonar.Watch called from several tasks    *)
(* (CallersSpec), the middleware pipeline (PipelineSpec), the rate limiter *)
(* called from several tasks (GateSpec), the subscribers and their         *)
(* Broadcast (BcastSpec), retry.Do with a Backoff (RetrySpec), the Replay  *)
(* watcher (ReplaySpec), the file cursor (FileSpec), WatchDecoded          *)
(* (DecodedSpec), the ABI decoder on its own (DecodeSpec), the chain       *)
(* registry under AddChain (RegistrySpec), the handler calls of two        *)
(* watchers (HandlerSpec), the poller on a chain whose head grows          *)
(* (ProgressSpec), the WebSocket transport (WsSpec) and WatchAll           *)
(* (WatchAllSpec).                                                         *)
(***************************************************************************)
EXTENDS Integers, Naturals, Sequences, FiniteSets, TLC

\* ------------------------------------------------------------------ bounds

\* uint64 is modelled as an unsigned integer of UintBits bits: arithmetic on
\* block numbers wraps modulo 2^UintBits exactly as Go's uint64 wraps modulo 2^64.
UintBits == 3

\* The highest block number the driver reports as the chain head; block numbers
\* stay below 2^UintBits - 1, as real chain heights stay far below 2^64 - 1.
MaxLatest == 4

\* The highest value the cursor is seeded with before the first run.
MaxSeed == 2

\* How many times the process is crashed / restarted on the same cursor.
MaxRuns == 1

UintMod == 2 ^ UintBits

MaxUint == UintMod - 1

U64(x) == x % UintMod

\* "No retry strategy installed" (Sonar.retry == nil).
NoRetry == 0 - 1

\* The BatchSize / Confirmations / retry options the orchestrator is built with.
\* Batch sizes small enough that fromBlock + BatchSize - 1 never wraps, and the
\* largest uint64 (a "no limit" setting), with which it does.
ModestBatchSizes == {1, 2}

BatchSizes == ModestBatchSizes \cup {MaxUint}

ConfirmationValues == {0, 1}

RetryOptions == {NoRetry, 2}

\* ------------------------------------------------------------------- state

VARIABLES
    cursorVal,      \* cursor: last committed block of the chain (persists)
    batchSize,      \* PollerConfig.BatchSize
    confirmations,  \* PollerConfig.Confirmations
    retry,          \* Sonar.retry: NoRetry or Backoff.MaxAttempts
    shutdown,       \* Sonar.shutdown
    watchers,       \* Sonar.watchers has an entry for the chain
    watchPc,        \* position of the Sonar.Watch call in progress
    watchRet,       \* what the last Sonar.Watch call returned
    watchOk,        \* some Sonar.Watch call has returned nil
    shutPc,         \* position of Sonar.Shutdown
    shutAfterWatch, \* Watch had returned nil when Shutdown was called
    stopPc,         \* position of Poller.Stop (called by Shutdown's goroutine)
    pc,             \* position of the poller goroutine in Poller.Watch
    cancelSet,      \* Poller.cancel != nil
    ctxDone,        \* Stop has cancelled the poller's context
    stoppedClosed,  \* Poller.stopped is closed
    fromBlock,      \* Watch's local fromBlock
    toBlock,        \* poll's local toBlock
    latest,         \* poll's local latest
    pending,        \* logs returned by FetchLogs and not yet emitted
    exitWhy,        \* why Poller.Watch returned
    emitted,        \* logs passed to the event callback in this run
    lastLog,        \* the log last passed to the event callback in this run
    startBlock,     \* the fromBlock this run started with (-1: not determined)
    loaded,         \* what cursor.Load returned at startup (-1: not loaded)
    startLatest,    \* what LatestBlock returned at startup (-1: not called)
    advanced,       \* a poll cycle of this run has saved the cursor
    savedRun,       \* the value this run last saved (-1: none)
    prevSaved,      \* the value the previous run last saved (-1: none)
    rpc,            \* outcome of the RPC made by the last step
    cb,             \* callback invoked by the last step
    attempts,       \* transport calls made for the RPC of the last step
    runs,           \* number of restarts so far
    rawLogs,        \* ethereum.Client: the rawLogs eth_getLogs answered with
    fetchPc,        \* ethereum.Client.FetchLogs: "idle", "ok" or "err"
    fetchedLogs,    \* ethereum.Client.FetchLogs: the logs returned
    now,            \* the clock read by time.Now / time.Since
    brThreshold,    \* CircuitBreaker.threshold
    brResetTimeout, \* CircuitBreaker.resetTimeout
    brState,        \* CircuitBreaker.state
    brFailures,     \* CircuitBreaker.failures
    brLastFailure,  \* CircuitBreaker.lastFailure
    brOp,           \* the CircuitBreaker method called last
    brAllowed,      \* what the last Allow returned
    brProbes,       \* Allow calls admitted since half_open was entered, no outcome recorded yet
    brStreak,       \* RecordFailure calls since the last RecordSuccess
    brReopened,     \* the last outcome recorded was a failure recorded in half_open
    callPc,         \* per caller: position of its Sonar.Watch call
    callRet,        \* per caller: what its last Sonar.Watch call returned
    callId,         \* per caller: the poller its call in progress has built
    wRecorded,      \* Sonar.watchers[chainID]: the poller recorded (0: none)
    wCalls,         \* Sonar.Watch calls made so far
    wNil,           \* Sonar.Watch calls that returned nil
    wBusy,          \* Sonar.Watch calls that returned ErrAlreadyRunning
    wTasks,         \* poller tasks started by go p.Watch()
    plMws,          \* Sonar.middlewares: the list given to Use
    plChain,        \* the Handler built by buildHandler, outermost first
    plDir,          \* the pipeline call: "unbuilt", "idle", "down" (calling) or "up" (returning)
    plPos,          \* the position in plChain the call is at
    plResult,       \* the call returns a non-nil *event.Log
    plTrace,        \* what the call for the current log has entered, in order
    rlInterval,     \* RateLimit.interval
    rlLast,         \* RateLimit.last
    submitted,      \* logs passed to the pipeline
    delivered,      \* logs that reached the user handler
    processed,      \* Metrics.processed
    dropped,        \* Metrics.dropped
    gate,           \* RateLimit.Wrap called from several tasks: their positions, the admitted times
    bcast,          \* subscriber.Broadcast: its subscribers and the Send in progress
    rdo,            \* retry.Do with a Backoff: the strategy, Do's locals, the context
    replay,         \* watcher.Replay: its query and batch size, Watch's locals, what it did
    fcur,           \* cursor.File: the file on disk, the Save in progress, the last Load
    wdec,           \* Sonar.WatchDecoded: the registry, the logs of a poll cycle, the handler's calls
    dec,            \* ABIDecoder.Decode: the definition, the log and the decoded event
    reg,           \* chain.Registry: the registered drivers and the AddChain calls
    hand,          \* the watchers of several chains: each task's position and the handler calls in progress
    head,          \* the chain's head block, as the driver's LatestBlock reports it
    ws,            \* the WebSocket transport, its callers and its server
    wall            \* Sonar.WatchAll: the registry, the watchers map and the calling tasks

pollerVars == <<cursorVal, batchSize, confirmations, retry, shutdown, watchers, watchPc,
          watchRet, watchOk, shutPc, shutAfterWatch, stopPc, pc, cancelSet, ctxDone,
          stoppedClosed, fromBlock, toBlock, latest, pending, exitWhy, emitted,
          lastLog, startBlock, loaded, startLatest, advanced, savedRun, prevSaved,
          rpc, cb, attempts, runs>>

driverVars == <<rawLogs, fetchPc, fetchedLogs>>

breakerVars == <<now, brThreshold, brResetTimeout, brState, brFailures, brLastFailure,
                 brOp, brAllowed, brProbes, brStreak, brReopened>>

callerVars == <<callPc, callRet, callId, wRecorded, wCalls, wNil, wBusy, wTasks>>

pipelineVars == <<plMws, plChain, plDir, plPos, plResult, plTrace, rlInterval, rlLast,
                  submitted, delivered, processed, dropped>>

\* One record each for the components specified later.
midVars == <<gate, bcast, rdo, replay, fcur, wdec>>

lastVars == <<dec, reg, hand, head, ws, wall>>

lateVars == <<midVars, lastVars>>

\* The components that the poller and the orchestrator do not touch.
sideVars == <<driverVars, breakerVars, callerVars, pipelineVars, lateVars>>

\* What the calls of one component leave alone.
notDriver == <<pollerVars, breakerVars, callerVars, pipelineVars, lateVars>>

notBreaker == <<pollerVars, driverVars, callerVars, pipelineVars, lateVars>>

notCallers == <<pollerVars, driverVars, breakerVars, pipelineVars, lateVars>>

notPipeline == <<pollerVars, driverVars, callerVars, brThreshold, brResetTimeout,
                 brState, brFailures, brLastFailure, brOp, brAllowed, brProbes,
                 brStreak, brReopened, lateVars>>

\* The variables of the components specified first.
earlyVars == <<pollerVars, driverVars, breakerVars, callerVars, pipelineVars>>

notGate == <<pollerVars, driverVars, callerVars, brThreshold, brResetTimeout, brState,
             brFailures, brLastFailure, brOp, brAllowed, brProbes, brStreak, brReopened,
             plMws, plChain, plDir, plPos, plResult, plTrace, processed, dropped,
             bcast, rdo, replay, fcur, wdec, lastVars>>

notBcast == <<earlyVars, gate, rdo, replay, fcur, wdec, lastVars>>

notRetry == <<earlyVars, gate, bcast, replay, fcur, wdec, lastVars>>

notReplay == <<earlyVars, gate, bcast, rdo, fcur, wdec, lastVars>>

notFile == <<earlyVars, gate, bcast, rdo, replay, wdec, lastVars>>

notDecoded == <<earlyVars, gate, bcast, rdo, replay, fcur, lastVars>>

notDecode == <<earlyVars, midVars, reg, hand, head, ws, wall>>

notRegistry == <<earlyVars, midVars, dec, hand, head, ws, wall>>

notHandler == <<earlyVars, midVars, dec, reg, head, ws, wall>>

notHead == <<earlyVars, midVars, dec, reg, hand, ws, wall>>

notWs == <<earlyVars, midVars, dec, reg, hand, head, wall>>

notWatchAll == <<earlyVars, midVars, dec, reg, hand, head, ws>>

vars == <<pollerVars, sideVars>>

configVars == <<batchSize, confirmations, retry>>

sonarVars == <<shutdown, watchers, watchPc, watchRet, watchOk, shutPc, shutAfterWatch>>

pollerLocals == <<fromBlock, toBlock, latest, pending>>

startGhost == <<startBlock, loaded, startLatest>>

\* ------------------------------------------------------------ chain content

\* The chain's content: block b holds b % 3 logs, with log_index 0, 1, ...
LogCount(b) == b % 3

LogsAt(b) == {<<b, i>> : i \in 0 .. (LogCount(b) - 1)}

NoLog == <<0 - 1, 0 - 1>>

\* (block_number, log_index) order.
LogLE(a, b) == a[1] < b[1] \/ (a[1] = b[1] /\ a[2] <= b[2])

RECURSIVE BlockLogs(_, _)
BlockLogs(b, i) == IF i >= LogCount(b) THEN <<>> ELSE <<<<b, i>>>> \o BlockLogs(b, i + 1)

\* What a driver that honours the Chain contract returns for [from, to]: the
\* logs of the range, sorted by (block_number, log_index); nothing when from > to.
RECURSIVE SortedLogs(_, _)
SortedLogs(from, to) ==
    IF from > to THEN <<>> ELSE BlockLogs(from, 0) \o SortedLogs(from + 1, to)

\* ------------------------------------------------------------------- init

\* Nothing has been called yet on the orchestrator and its poller.
PollerStart ==
    /\ shutdown = FALSE
    /\ watchers = FALSE
    /\ watchPc = "none"
    /\ watchRet = "none"
    /\ watchOk = FALSE
    /\ shutPc = "none"
    /\ shutAfterWatch = FALSE
    /\ stopPc = "none"
    /\ pc = "none"
    /\ cancelSet = FALSE
    /\ ctxDone = FALSE
    /\ stoppedClosed = FALSE
    /\ fromBlock = 0
    /\ toBlock = 0
    /\ latest = 0
    /\ pending = <<>>
    /\ exitWhy = "none"
    /\ emitted = {}
    /\ lastLog = NoLog
    /\ startBlock = 0 - 1
    /\ loaded = 0 - 1
    /\ startLatest = 0 - 1
    /\ advanced = FALSE
    /\ savedRun = 0 - 1
    /\ prevSaved = 0 - 1
    /\ rpc = "none"
    /\ cb = "none"
    /\ attempts = 0
    /\ runs = 0

\* A component that is built and not called.
DriverIdle ==
    /\ rawLogs = <<>>
    /\ fetchPc = "idle"
    /\ fetchedLogs = <<>>

\* time.Time{}: the zero time, further back than any timeout.
ZeroTime == 0 - 1

BreakerIdle ==
    /\ now = 0
    /\ brThreshold = 1
    /\ brResetTimeout = 1
    /\ brState = "closed"
    /\ brFailures = 0
    /\ brLastFailure = ZeroTime
    /\ brOp = "none"
    /\ brAllowed = FALSE
    /\ brProbes = 0
    /\ brStreak = 0
    /\ brReopened = FALSE

\* How many goroutines call Sonar.Watch for the one chain.
NumCallers == 3

Callers == 1 .. NumCallers

CallersIdle ==
    /\ callPc = [c \in Callers |-> "idle"]
    /\ callRet = [c \in Callers |-> "none"]
    /\ callId = [c \in Callers |-> 0]
    /\ wRecorded = 0
    /\ wCalls = 0
    /\ wNil = 0
    /\ wBusy = 0
    /\ wTasks = 0

PipelineIdle ==
    /\ plMws = <<>>
    /\ plChain = <<>>
    /\ plDir = "unbuilt"
    /\ plPos = 0
    /\ plResult = FALSE
    /\ plTrace = <<>>
    /\ rlInterval = 1
    /\ rlLast = ZeroTime
    /\ submitted = 0
    /\ delivered = 0
    /\ processed = 0
    /\ dropped = 0

\* A component specified last that is not built.
Unbuilt == "unbuilt"

GateIdle == gate = Unbuilt

BcastIdle == bcast = Unbuilt

RetryIdle == rdo = Unbuilt

ReplayIdle == replay = Unbuilt

FileIdle == fcur = Unbuilt

DecodedIdle == wdec = Unbuilt

MidIdle == GateIdle /\ BcastIdle /\ RetryIdle /\ ReplayIdle /\ FileIdle /\ DecodedIdle

DecodeIdle == dec = Unbuilt

RegistryIdle == reg = Unbuilt

HandlerIdle == hand = Unbuilt

HeadIdle == head = Unbuilt

WsIdle == ws = Unbuilt

WatchAllIdle == wall = Unbuilt

LastIdle == DecodeIdle /\ RegistryIdle /\ HandlerIdle /\ HeadIdle /\ WsIdle /\ WatchAllIdle

LateIdle == MidIdle /\ LastIdle

SideIdle == DriverIdle /\ BreakerIdle /\ CallersIdle /\ PipelineIdle /\ LateIdle

Init ==
    /\ cursorVal \in 0 .. MaxSeed
    /\ batchSize \in BatchSizes
    /\ confirmations \in ConfirmationValues
    /\ retry \in RetryOptions
    /\ PollerStart
    /\ SideIdle

\* One orchestrator configuration, for the specifications of the components
\* that do not depend on it.
PollerIdle ==
    /\ cursorVal = 0
    /\ batchSize = 1
    /\ confirmations = 0
    /\ retry = NoRetry
    /\ PollerStart

\* Everything but the components specified last is built and not called.
EarlyIdle == PollerIdle /\ DriverIdle /\ BreakerIdle /\ CallersIdle /\ PipelineIdle

\* A step that makes no RPC and invokes no callback.
Quiet == rpc' = "none" /\ cb' = "none" /\ attempts' = 0

\* ------------------------------------------------------------ pure helpers

\* Watch, lines 91-103: the block the run starts from, given what cursor.Load
\* returned and (on a cold start) what LatestBlock returned.
ResumeFromSame(last) == last

ResumeFrom(last) == U64(last + 1)

ColdStartFrom(l) == IF l > confirmations THEN l - confirmations ELSE 0

\* poll, lines 154-157: toBlock := *fromBlock + BatchSize - 1, capped at safeBlock.
ToBlock(from, safe) ==
    LET t == U64(from + batchSize - 1)
    IN  IF t > safe THEN safe ELSE t

\* poll, line 178: *fromBlock = toBlock + 1.
NextFrom(to) == U64(to + 1)

\* poll, lines 140-142 and 165-167: a failed RPC returns before *fromBlock is
\* touched.
FromAfterErrorSkip(from) == U64(from + 1)

FromAfterError(from) == from

\* poll, lines 169-174: cursor.Save is reached when the emit loop has run out.
EmitLoopSkipped == TRUE

EmitLoopDone == pending = <<>>

\* Client.LatestBlock / Client.FetchLogs make one transport.Call; Sonar.retry
\* is stored by WithRetry and read nowhere.
RpcAttempts == 1

\* Poller.Watch returns: deferred cancel() and close(p.stopped).
ExitNoClose(why) ==
    /\ pc' = "done"
    /\ exitWhy' = why
    /\ UNCHANGED <<cancelSet, ctxDone, stoppedClosed>>

Exit(why) ==
    /\ pc' = "done"
    /\ stoppedClosed' = TRUE
    /\ exitWhy' = why
    /\ UNCHANGED <<cancelSet, ctxDone>>

\* p.emitError(err): Sonar.Watch always registers an error callback.
EmitError == cb' = "err"

\* A poll cycle ends: poll's locals go out of scope.
EndCycle(from) ==
    /\ pc' = "select"
    /\ fromBlock' = from
    /\ toBlock' = 0
    /\ latest' = 0
    /\ pending' = <<>>

\* ------------------------------------------------------------ Sonar.Watch

\* sonar.go 75-102: the shutdown check, the registry lookup, the poller built.
SonarWatch_Enter ==
    /\ watchPc = "none"
    /\ IF shutdown
         THEN watchRet' = "ErrShutdown" /\ watchPc' = "none"
         ELSE watchRet' = "none" /\ watchPc' = "built"
    /\ Quiet
    /\ UNCHANGED <<cursorVal, configVars, shutdown, watchers, watchOk, shutPc,
                   shutAfterWatch, stopPc, pc, cancelSet, ctxDone, stoppedClosed,
                   pollerLocals, exitWhy, emitted, lastLog, startGhost, advanced,
                   savedRun, prevSaved, runs, sideVars>>

\* sonar.go 104-110: the watchers map is checked and written under the mutex.
SonarWatch_Record ==
    /\ watchPc = "built"
    /\ IF watchers
         THEN watchRet' = "ErrAlreadyRunning" /\ watchPc' = "none" /\ watchers' = watchers
         ELSE watchRet' = "none" /\ watchPc' = "recorded" /\ watchers' = TRUE
    /\ Quiet
    /\ UNCHANGED <<cursorVal, configVars, shutdown, watchOk, shutPc,
                   shutAfterWatch, stopPc, pc, cancelSet, ctxDone, stoppedClosed,
                   pollerLocals, exitWhy, emitted, lastLog, startGhost, advanced,
                   savedRun, prevSaved, runs, sideVars>>

\* sonar.go 112-114: go p.Watch(); return nil.
SonarWatch_Go ==
    /\ watchPc = "recorded"
    /\ pc' = "spawned"
    /\ watchPc' = "none"
    /\ watchRet' = "nil"
    /\ watchOk' = TRUE
    /\ Quiet
    /\ UNCHANGED <<cursorVal, configVars, shutdown, watchers, shutPc,
                   shutAfterWatch, stopPc, cancelSet, ctxDone, stoppedClosed,
                   pollerLocals, exitWhy, emitted, lastLog, startGhost, advanced,
                   savedRun, prevSaved, runs, sideVars>>

\* ---------------------------------------------------------- Sonar.Shutdown

\* sonar.go 135-149: set the flag, snapshot the watchers, start the stopper.
Shutdown_Begin ==
    /\ shutPc = "none"
    /\ shutdown' = TRUE
    /\ shutPc' = "stopping"
    /\ shutAfterWatch' = watchOk
    /\ stopPc' = IF watchers THEN "called" ELSE "nostop"
    /\ Quiet
    /\ UNCHANGED <<cursorVal, configVars, watchers, watchPc, watchRet, watchOk,
                   pc, cancelSet, ctxDone, stoppedClosed, pollerLocals, exitWhy,
                   emitted, lastLog, startGhost, advanced, savedRun, prevSaved, runs, sideVars>>

\* poller.go 126-133: Stop reads p.cancel; nil: return at once; else cancel().
Stop_Cancel ==
    /\ stopPc = "called"
    /\ IF cancelSet
         THEN ctxDone' = TRUE /\ stopPc' = "waiting"
         ELSE ctxDone' = ctxDone /\ stopPc' = "returned"
    /\ Quiet
    /\ UNCHANGED <<cursorVal, configVars, sonarVars, pc, cancelSet, stoppedClosed,
                   pollerLocals, exitWhy, emitted, lastLog, startGhost, advanced,
                   savedRun, prevSaved, runs, sideVars>>

\* poller.go 133-135: <-p.stopped; return nil.
Stop_Return ==
    /\ stopPc = "waiting"
    /\ stoppedClosed
    /\ stopPc' = "returned"
    /\ Quiet
    /\ UNCHANGED <<cursorVal, configVars, sonarVars, pc, cancelSet, ctxDone,
                   stoppedClosed, pollerLocals, exitWhy, emitted, lastLog,
                   startGhost, advanced, savedRun, prevSaved, runs, sideVars>>

\* sonar.go 151-156: done is closed -> nil; the caller's ctx is done -> ctx.Err().
Shutdown_Return ==
    /\ shutPc = "stopping"
    /\ \/ stopPc \in {"returned", "nostop"} /\ shutPc' = "retNil"
       \/ shutPc' = "retCtx"
    /\ Quiet
    /\ UNCHANGED <<cursorVal, configVars, shutdown, watchers, watchPc, watchRet,
                   watchOk, shutAfterWatch, stopPc, pc, cancelSet, ctxDone,
                   stoppedClosed, pollerLocals, exitWhy, emitted, lastLog,
                   startGhost, advanced, savedRun, prevSaved, runs, sideVars>>

\* ------------------------------------------------------------ Poller.Watch

\* poller.go 77-83: the context is created and p.cancel is set under the mutex.
Watch_Enter ==
    /\ pc = "spawned"
    /\ pc' = "load"
    /\ cancelSet' = TRUE
    /\ Quiet
    /\ UNCHANGED <<cursorVal, configVars, sonarVars, stopPc, ctxDone, stoppedClosed,
                   pollerLocals, exitWhy, emitted, lastLog, startGhost, advanced,
                   savedRun, prevSaved, runs, sideVars>>

\* poller.go 86-93: cursor.Load; an error ends Watch; last > 0 resumes at last + 1.
Watch_Load ==
    /\ pc = "load"
    /\ \/ /\ Exit("load")
          /\ UNCHANGED <<pollerLocals, startGhost>>
       \/ /\ loaded' = cursorVal
          /\ IF cursorVal > 0
               THEN /\ fromBlock' = ResumeFrom(cursorVal)
                    /\ startBlock' = ResumeFrom(cursorVal)
                    /\ pc' = "pollLatest"
               ELSE /\ pc' = "startLatest"
                    /\ UNCHANGED <<fromBlock, startBlock>>
          /\ UNCHANGED <<toBlock, latest, pending, startLatest, stoppedClosed,
                         exitWhy, cancelSet, ctxDone>>
    /\ Quiet
    /\ UNCHANGED <<cursorVal, configVars, sonarVars, stopPc, emitted, lastLog,
                   advanced, savedRun, prevSaved, runs, sideVars>>

\* poller.go 96-102: no cursor: LatestBlock; an error ends Watch; otherwise the
\* run starts at the safe head.
Watch_StartLatest ==
    /\ pc = "startLatest"
    /\ attempts' = RpcAttempts
    /\ cb' = "none"
    /\ \/ /\ rpc' = "fail"
          /\ Exit("latest")
          /\ UNCHANGED <<pollerLocals, startGhost>>
       \/ \E l \in 0 .. MaxLatest :
          /\ rpc' = "ok"
          /\ startLatest' = l
          /\ fromBlock' = ColdStartFrom(l)
          /\ startBlock' = ColdStartFrom(l)
          /\ pc' = "pollLatest"
          /\ UNCHANGED <<toBlock, latest, pending, loaded, stoppedClosed, exitWhy,
                         cancelSet, ctxDone>>
    /\ UNCHANGED <<cursorVal, configVars, sonarVars, stopPc, emitted, lastLog,
                   advanced, savedRun, prevSaved, runs, sideVars>>

\* poller.go 139-157: LatestBlock, the confirmations and caught-up checks, toBlock.
Poll_Latest ==
    /\ pc = "pollLatest"
    /\ attempts' = RpcAttempts
    /\ \/ /\ rpc' = "fail"
          /\ EmitError
          /\ EndCycle(FromAfterError(fromBlock))
       \/ \E l \in 0 .. MaxLatest :
          /\ rpc' = "ok"
          /\ cb' = "none"
          /\ IF l <= confirmations \/ fromBlock > l - confirmations
               THEN EndCycle(fromBlock)
               ELSE /\ toBlock' = ToBlock(fromBlock, l - confirmations)
                    /\ latest' = l
                    /\ pc' = "fetch"
                    /\ UNCHANGED <<fromBlock, pending>>
    /\ UNCHANGED <<cursorVal, configVars, sonarVars, stopPc, cancelSet, ctxDone,
                   stoppedClosed, exitWhy, emitted, lastLog, startGhost, advanced,
                   savedRun, prevSaved, runs, sideVars>>

\* poller.go 160-167: FetchLogs on [fromBlock, toBlock].
Poll_Fetch ==
    /\ pc = "fetch"
    /\ attempts' = RpcAttempts
    /\ \/ /\ rpc' = "fail"
          /\ EmitError
          /\ EndCycle(FromAfterError(fromBlock))
       \/ /\ rpc' = "ok"
          /\ cb' = "none"
          /\ pending' = SortedLogs(fromBlock, toBlock)
          /\ pc' = "emit"
          /\ UNCHANGED <<fromBlock, toBlock, latest>>
    /\ UNCHANGED <<cursorVal, configVars, sonarVars, stopPc, cancelSet, ctxDone,
                   stoppedClosed, exitWhy, emitted, lastLog, startGhost, advanced,
                   savedRun, prevSaved, runs, sideVars>>

\* poller.go 169-171: the next log is passed to the event callback.
Poll_Emit ==
    /\ pc = "emit"
    /\ pending # <<>>
    /\ emitted' = emitted \cup {Head(pending)}
    /\ lastLog' = Head(pending)
    /\ pending' = Tail(pending)
    /\ rpc' = "none"
    /\ cb' = "log"
    /\ attempts' = 0
    /\ UNCHANGED <<cursorVal, configVars, sonarVars, stopPc, pc, cancelSet, ctxDone,
                   stoppedClosed, fromBlock, toBlock, latest, exitWhy, startGhost,
                   advanced, savedRun, prevSaved, runs, sideVars>>

\* poller.go 174-179: cursor.Save(toBlock); on success *fromBlock = toBlock + 1.
Poll_Save ==
    /\ pc = "emit"
    /\ EmitLoopDone
    /\ rpc' = "none"
    /\ attempts' = 0
    /\ \/ /\ EmitError
          /\ EndCycle(fromBlock)
          /\ UNCHANGED <<cursorVal, advanced, savedRun>>
       \/ /\ cb' = "none"
          /\ cursorVal' = toBlock
          /\ savedRun' = toBlock
          /\ advanced' = TRUE
          /\ EndCycle(NextFrom(toBlock))
    /\ UNCHANGED <<configVars, sonarVars, stopPc, cancelSet, ctxDone, stoppedClosed,
                   exitWhy, emitted, lastLog, startGhost, prevSaved, runs, sideVars>>

\* poller.go 117-118: the ticker fires.
Loop_Tick ==
    /\ pc = "select"
    /\ pc' = "pollLatest"
    /\ Quiet
    /\ UNCHANGED <<cursorVal, configVars, sonarVars, stopPc, cancelSet, ctxDone,
                   stoppedClosed, pollerLocals, exitWhy, emitted, lastLog, startGhost,
                   advanced, savedRun, prevSaved, runs, sideVars>>

\* poller.go 115-116: the context is done: return nil.
Loop_Done ==
    /\ pc = "select"
    /\ ctxDone
    /\ Exit("cancel")
    /\ Quiet
    /\ UNCHANGED <<cursorVal, configVars, sonarVars, stopPc, pollerLocals, emitted,
                   lastLog, startGhost, advanced, savedRun, prevSaved, runs, sideVars>>

\* ------------------------------------------------------------ crash / restart

\* The process dies at any point and a new one is started on the same cursor
\* with the same options: everything but the cursor is lost.
Restart ==
    /\ runs < MaxRuns
    /\ runs' = runs + 1
    /\ prevSaved' = savedRun
    /\ shutdown' = FALSE
    /\ watchers' = FALSE
    /\ watchPc' = "none"
    /\ watchRet' = "none"
    /\ watchOk' = FALSE
    /\ shutPc' = "none"
    /\ shutAfterWatch' = FALSE
    /\ stopPc' = "none"
    /\ pc' = "none"
    /\ cancelSet' = FALSE
    /\ ctxDone' = FALSE
    /\ stoppedClosed' = FALSE
    /\ fromBlock' = 0
    /\ toBlock' = 0
    /\ latest' = 0
    /\ pending' = <<>>
    /\ exitWhy' = "none"
    /\ emitted' = {}
    /\ lastLog' = NoLog
    /\ startBlock' = 0 - 1
    /\ loaded' = 0 - 1
    /\ startLatest' = 0 - 1
    /\ advanced' = FALSE
    /\ savedRun' = 0 - 1
    /\ Quiet
    /\ UNCHANGED <<cursorVal, configVars, sideVars>>

Next ==
    \/ SonarWatch_Enter
    \/ SonarWatch_Record
    \/ SonarWatch_Go
    \/ Shutdown_Begin
    \/ Stop_Cancel
    \/ Stop_Return
    \/ Shutdown_Return
    \/ Watch_Enter
    \/ Watch_Load
    \/ Watch_StartLatest
    \/ Poll_Latest
    \/ Poll_Fetch
    \/ Poll_Emit
    \/ Poll_Save
    \/ Loop_Tick
    \/ Loop_Done
    \/ Restart

Spec == Init /\ [][Next]_vars

\* The same program built with a batch size that cannot wrap.
InitModestBatch == Init /\ batchSize \in ModestBatchSizes

SpecModestBatch == InitModestBatch /\ [][Next]_vars

\* ------------------------------------------------------------------ claims

\* The positions of Poller.Watch between its first line and its return.
Running == {"load", "startLatest", "pollLatest", "fetch", "emit", "select"}

\* C1: when an earlier run's poll cycle saved `to` (any to >= 0) to the cursor,
\* the restarted poller starts fetching at from = to + 1.
C1_RestartResumes ==
    (prevSaved >= 0 /\ startBlock >= 0) => startBlock = prevSaved + 1

\* C2: the cursor is saved only after every log of the fetched range has been
\* passed to the event callback: whenever this run has saved the cursor, every
\* log of every block from the run's start block up to the persisted cursor
\* value has been emitted.
C2_SaveAfterEmit ==
    savedRun >= 0 =>
        /\ cursorVal = savedRun
        /\ \A b \in startBlock .. cursorVal : LogsAt(b) \subseteq emitted

\* C2 witness: the run has saved block 2 or higher after emitting both logs of
\* block 2.
C2_Witness ==
    /\ savedRun >= 2
    /\ startBlock >= 0
    /\ startBlock <= 2
    /\ <<2, 1>> \in emitted

\* C3: the logs one poller passes to the handler are non-decreasing in
\* (block_number, log_index) over its whole run, whatever errors occur.
C3_Ordered ==
    [][(cb' = "log" /\ runs' = runs) => LogLE(lastLog, lastLog')]_vars

\* C4: if Watch returned nil and afterwards Shutdown returns nil, the watcher
\* task has exited (so it makes no further callback, RPC or cursor save).
C4_ShutdownStops ==
    (shutPc = "retNil" /\ shutAfterWatch) => pc = "done"

\* C5: once Stop has been called on a watcher and has returned, the watcher is
\* never running afterwards.
C5_StopIrreversible ==
    stopPc = "returned" => pc \notin Running

\* C6: every FetchLogs call carries a range with from <= to, at most batch_size
\* blocks, to <= latest - confirmations, and is issued only when
\* latest > confirmations and from <= latest - confirmations.
C6_FetchRange ==
    pc = "fetch" =>
        /\ fromBlock <= toBlock
        /\ toBlock - fromBlock + 1 <= batchSize
        /\ latest > confirmations
        /\ toBlock <= latest - confirmations
        /\ fromBlock <= latest - confirmations

\* C7: the first range the poller fetches starts at last + 1 when cursor.Load
\* returned last > 0, and at max(0, latest - confirmations) when it returned 0;
\* a cold start with latest > confirmations never starts at block 0.
C7_ResumeRule ==
    (pc = "fetch" /\ ~advanced) =>
        /\ loaded > 0 => fromBlock = loaded + 1
        /\ loaded = 0 =>
              /\ startLatest > confirmations =>
                    fromBlock = startLatest - confirmations /\ fromBlock # 0
              /\ startLatest <= confirmations => fromBlock = 0

\* C7 witness: the first fetch of a cold start whose latest exceeded the
\* confirmations.
C7_Witness ==
    /\ pc = "fetch"
    /\ ~advanced
    /\ loaded = 0
    /\ startLatest > confirmations

\* C8: when LatestBlock or FetchLogs fails in a poll cycle, the error callback
\* is invoked, no log is emitted, the cursor is not written, and the cycle
\* ends with fromBlock unchanged; the next tick's cycle keeps that fromBlock
\* up to its fetch.
C8_FailedCycle ==
    [][/\ (pc \in {"pollLatest", "fetch"} /\ rpc' = "fail") =>
            /\ cb' = "err"
            /\ emitted' = emitted
            /\ cursorVal' = cursorVal
            /\ fromBlock' = fromBlock
            /\ pc' = "select"
       /\ (pc \in {"select", "pollLatest"} /\ pc' \in {"pollLatest", "fetch"}) =>
            fromBlock' = fromBlock]_vars

\* C8 witness: a cycle of a run that had already advanced has just failed and
\* reported its error.
C8_Witness ==
    /\ pc = "select"
    /\ rpc = "fail"
    /\ cb = "err"
    /\ advanced
    /\ emitted # {}

\* C9: a started poller's task ends only by cancellation or by a cursor-load
\* failure at startup.
C9_ExitsOnlyOnCancelOrLoad ==
    (pc = "done" /\ ~ctxDone) => exitWhy = "load"

\* C10: with a retry strategy installed, the error callback sees an RPC failure
\* only after the strategy has refused further retries (max_attempts + 1 calls).
C10_RetriedBeforeReported ==
    (retry # NoRetry /\ rpc = "fail" /\ cb = "err") => attempts = retry + 1

\* -------------------------------------------- ethereum.Client.FetchLogs

\* How many logs an eth_getLogs answer holds at most.
MaxRawLogs == 2

\* strconv.ParseUint(s, 16, 64): the base of a JSON-RPC quantity.
HexBase == 16

\* A character that is no hex digit.
BadDigit == HexBase

\* A quantity field of an rpcLog after TrimPrefix("0x"): the sequence of its
\* characters, a hex digit standing as its value; <<>> is the empty string.
RawBlockNumbers == {<<>>, <<1>>, <<2>>, <<1, 0>>, <<BadDigit>>}

RawLogIndexes == {<<0>>, <<1>>}

\* rpcLog: <<BlockNumber, LogIndex>> as the endpoint sent them.
RpcLogs == RawBlockNumbers \X RawLogIndexes

\* The answers of eth_getLogs: the endpoint's logs in the endpoint's order.
RawAnswers == UNION {[1 .. n -> RpcLogs] : n \in 0 .. MaxRawLogs}

\* parseHexUint64: the value of the digits, an error on a character that is
\* no hex digit.
RECURSIVE HexValue(_)
HexValue(s) ==
    IF s = <<>> THEN 0
    ELSE HexValue(SubSeq(s, 1, Len(s) - 1)) * HexBase + s[Len(s)]

HexOk(s) == \A i \in 1 .. Len(s) : s[i] < HexBase

\* toEventLog: a field that is the empty string is left at zero.
toEventLog(rl) == <<HexValue(rl[1]), HexValue(rl[2])>>

ConvertOk(rl) == HexOk(rl[1]) /\ HexOk(rl[2])

\* client.go 84-92: logs[i] is the conversion of rawLogs[i].
ConvertedLogs(raw) == [i \in 1 .. Len(raw) |-> toEventLog(raw[i])]

\* Ascending by (block_number, log_index).
IsSorted(logs) == \A i \in 1 .. (Len(logs) - 1) : LogLE(logs[i], logs[i + 1])

DriverInit ==
    /\ PollerIdle
    /\ LateIdle
    /\ PipelineIdle
    /\ BreakerIdle
    /\ CallersIdle
    /\ rawLogs \in RawAnswers
    /\ fetchPc = "idle"
    /\ fetchedLogs = <<>>

\* client.go 72-94: the transport call, the decoding of the answer, the
\* conversion of every raw log; the first log that does not convert fails the
\* call.
Client_FetchLogs ==
    /\ fetchPc = "idle"
    /\ \/ fetchPc' = "err" /\ fetchedLogs' = <<>>
       \/ IF \A i \in 1 .. Len(rawLogs) : ConvertOk(rawLogs[i])
            THEN fetchPc' = "ok" /\ fetchedLogs' = ConvertedLogs(rawLogs)
            ELSE fetchPc' = "err" /\ fetchedLogs' = <<>>
    /\ UNCHANGED <<rawLogs, notDriver>>

DriverNext == Client_FetchLogs

DriverSpec == DriverInit /\ [][DriverNext]_vars

\* C11: whatever order the endpoint answers in, the logs FetchLogs returns are
\* ascending by (block_number, log_index).
C11_FetchLogsSorted ==
    fetchPc = "ok" => IsSorted(fetchedLogs)

\* ------------------------------------------------- retry.CircuitBreaker

\* How far the clock runs.
MaxTime == 4

\* How many failures are recorded in a row.
MaxFailures == 3

\* How many Allow calls are followed through one half_open period.
MaxProbes == 2

\* NewCircuitBreaker(threshold, resetTimeout): thresholds T >= 1.
Thresholds == {1, 2}

ResetTimeouts == {1, 2}

\* circuit.go 52: time.Since(cb.lastFailure) > cb.resetTimeout.
Elapsed(last) == last = ZeroTime \/ now - last > brResetTimeout

\* circuit.go 79: if cb.failures >= cb.threshold.
TrippedLate(f) == f > brThreshold

Tripped(f) == f >= brThreshold

\* circuit.go 78: cb.lastFailure = time.Now().
FailureTimeKept == brLastFailure

FailureTime == now

BreakerInit ==
    /\ PollerIdle
    /\ LateIdle
    /\ PipelineIdle
    /\ DriverIdle
    /\ CallersIdle
    /\ now = 0
    /\ brThreshold \in Thresholds
    /\ brResetTimeout \in ResetTimeouts
    /\ brState = "closed"
    /\ brFailures = 0
    /\ brLastFailure = ZeroTime
    /\ brOp = "none"
    /\ brAllowed = FALSE
    /\ brProbes = 0
    /\ brStreak = 0
    /\ brReopened = FALSE

\* circuit.go 44-62: Allow.
CB_Allow ==
    /\ brProbes < MaxProbes
    /\ brOp' = "allow"
    /\ \/ /\ brState = "closed"
          /\ brAllowed' = TRUE
          /\ UNCHANGED <<brState, brProbes>>
       \/ /\ brState = "open"
          /\ IF Elapsed(brLastFailure)
               THEN brState' = "half_open" /\ brAllowed' = TRUE /\ brProbes' = 1
               ELSE brState' = brState /\ brAllowed' = FALSE /\ brProbes' = brProbes
       \/ /\ brState = "half_open"
          /\ brAllowed' = TRUE
          /\ brProbes' = brProbes + 1
          /\ UNCHANGED brState
    /\ UNCHANGED <<now, brThreshold, brResetTimeout, brFailures, brLastFailure,
                   brStreak, brReopened, notBreaker>>

\* circuit.go 65-70: RecordSuccess.
CB_RecordSuccess ==
    /\ brOp' = "success"
    /\ brFailures' = 0
    /\ brState' = "closed"
    /\ brProbes' = 0
    /\ brStreak' = 0
    /\ brReopened' = FALSE
    /\ UNCHANGED <<now, brThreshold, brResetTimeout, brLastFailure, brAllowed,
                   notBreaker>>

\* circuit.go 74-82: RecordFailure.
CB_RecordFailure ==
    /\ brFailures < MaxFailures
    /\ brOp' = "failure"
    /\ brFailures' = brFailures + 1
    /\ brLastFailure' = FailureTime
    /\ brState' = IF Tripped(brFailures + 1) THEN "open" ELSE brState
    /\ brProbes' = 0
    /\ brStreak' = brStreak + 1
    /\ brReopened' = (brState = "half_open")
    /\ UNCHANGED <<now, brThreshold, brResetTimeout, brAllowed, notBreaker>>

\* Time passes.
Clock_Tick ==
    /\ now < MaxTime
    /\ now' = now + 1
    /\ UNCHANGED <<brThreshold, brResetTimeout, brState, brFailures, brLastFailure,
                   brOp, brAllowed, brProbes, brStreak, brReopened, notBreaker>>

BreakerNext ==
    \/ CB_Allow
    \/ CB_RecordSuccess
    \/ CB_RecordFailure
    \/ Clock_Tick

BreakerSpec == BreakerInit /\ [][BreakerNext]_vars

\* C12: in a half_open period one Allow returns true until an outcome is
\* recorded; no second call is admitted.
C12_OneProbe ==
    brState = "half_open" => brProbes <= 1

\* C13: within reset_timeout of last_failure an open breaker denies Allow, and
\* it leaves open only through an Allow made after the timeout, to half_open.
C13_OpenUntilTimeout ==
    [][brState = "open" =>
         /\ (brOp' = "allow" /\ now - brLastFailure <= brResetTimeout) => ~brAllowed'
         /\ \/ brState' = "open"
            \/ /\ brState' = "half_open"
               /\ brOp' = "allow"
               /\ now - brLastFailure > brResetTimeout]_vars

\* C14: Allow is admitted in every closed state; the breaker goes from closed
\* to open on the step that records the T-th failure in a row and on no other;
\* RecordSuccess zeroes the count; closed has failures < T, open and half_open
\* have failures >= T.
C14_Trip ==
    /\ [](/\ brState = "closed" => brFailures < brThreshold
          /\ brState \in {"open", "half_open"} => brFailures >= brThreshold
          /\ (brState = "closed" /\ brOp = "allow") => brAllowed
          /\ brOp = "success" => brFailures = 0)
    /\ [][/\ (brState = "closed" /\ brState' = "open") =>
                (brOp' = "failure" /\ brStreak' = brThreshold)
          /\ (brState = "closed" /\ brOp' = "failure" /\ brStreak' = brThreshold) =>
                brState' = "open"]_vars

\* C14 witness: the breaker has just opened on the second failure in a row.
C14_Witness ==
    /\ brThreshold = 2
    /\ brState = "open"
    /\ brOp = "failure"
    /\ brFailures = 2
    /\ brStreak = 2

\* C15: in half_open, RecordSuccess closes the breaker with failures = 0 and
\* RecordFailure opens it with last_failure at the time of that failure; an
\* open breaker denies every Allow made within reset_timeout of last_failure.
C15_ProbeOutcome ==
    [][/\ (brState = "half_open" /\ brOp' = "success") =>
             (brState' = "closed" /\ brFailures' = 0)
       /\ (brState = "half_open" /\ brOp' = "failure") =>
             (brState' = "open" /\ brLastFailure' = now)
       /\ (brState = "open" /\ brOp' = "allow"
             /\ now - brLastFailure <= brResetTimeout) =>
             (~brAllowed' /\ brState' = "open")]_vars

\* C15 witness: the probe failed after time had passed, and an Allow made a
\* full reset_timeout after that failure has been denied.
C15_Witness ==
    /\ brReopened
    /\ brState = "open"
    /\ brOp = "allow"
    /\ ~brAllowed
    /\ brLastFailure > 1
    /\ now - brLastFailure = brResetTimeout

\* ------------------------------------- Sonar.Watch called from several tasks

\* How many Sonar.Watch calls are made in all.
MaxCalls == 4

\* sonar.go 105: _, exists := s.watchers[chainID].
ExistsNever == FALSE

Exists == wRecorded # 0

CallersInit ==
    /\ PollerIdle
    /\ LateIdle
    /\ PipelineIdle
    /\ DriverIdle
    /\ BreakerIdle
    /\ CallersIdle

\* sonar.go 76-102: the shutdown check under the mutex, the registry lookup of
\* the registered chain, the pipeline and the poller built.
Call_Enter(c) ==
    /\ callPc[c] = "idle"
    /\ wCalls < MaxCalls
    /\ wCalls' = wCalls + 1
    /\ IF shutdown
         THEN /\ callRet' = [callRet EXCEPT ![c] = "ErrShutdown"]
              /\ UNCHANGED <<callPc, callId>>
         ELSE /\ callPc' = [callPc EXCEPT ![c] = "built"]
              /\ callId' = [callId EXCEPT ![c] = wCalls + 1]
              /\ callRet' = [callRet EXCEPT ![c] = "none"]
    /\ UNCHANGED <<wRecorded, wNil, wBusy, wTasks, notCallers>>

\* sonar.go 104-110: under the mutex, an existing entry returns
\* ErrAlreadyRunning, otherwise the poller is recorded.
Call_Record(c) ==
    /\ callPc[c] = "built"
    /\ IF Exists
         THEN /\ callRet' = [callRet EXCEPT ![c] = "ErrAlreadyRunning"]
              /\ callPc' = [callPc EXCEPT ![c] = "idle"]
              /\ callId' = [callId EXCEPT ![c] = 0]
              /\ wBusy' = wBusy + 1
              /\ UNCHANGED wRecorded
         ELSE /\ wRecorded' = callId[c]
              /\ callPc' = [callPc EXCEPT ![c] = "recorded"]
              /\ UNCHANGED <<callRet, callId, wBusy>>
    /\ UNCHANGED <<wCalls, wNil, wTasks, notCallers>>

\* sonar.go 112-114: go p.Watch(); return nil.
Call_Go(c) ==
    /\ callPc[c] = "recorded"
    /\ wTasks' = wTasks + 1
    /\ wNil' = wNil + 1
    /\ callRet' = [callRet EXCEPT ![c] = "nil"]
    /\ callPc' = [callPc EXCEPT ![c] = "idle"]
    /\ callId' = [callId EXCEPT ![c] = 0]
    /\ UNCHANGED <<wRecorded, wCalls, wBusy, notCallers>>

CallersNext ==
    \/ \E c \in Callers : Call_Enter(c)
    \/ \E c \in Callers : Call_Record(c)
    \/ \E c \in Callers : Call_Go(c)

CallersSpec == CallersInit /\ [][CallersNext]_vars

\* C16: of the Watch calls made for the one chain on a live instance, one
\* returns nil and starts the one poller task; every other returns
\* ErrAlreadyRunning, starts nothing and leaves the recorded poller in place.
C16_OneWatcher ==
    /\ [](/\ wTasks <= 1
          /\ wNil <= 1
          /\ wBusy > 0 => wRecorded # 0
          /\ ((\A c \in Callers : callPc[c] = "idle") /\ wCalls > 0) =>
                (wNil = 1 /\ wTasks = 1 /\ wBusy = wCalls - 1)
          /\ \A c \in Callers :
                callRet[c] \in {"none", "nil", "ErrAlreadyRunning"})
    /\ [][/\ wRecorded # 0 => wRecorded' = wRecorded
          /\ wBusy' > wBusy => (wTasks' = wTasks /\ wRecorded' = wRecorded)]_vars

\* C16 witness: calls overlapped: one was refused with ErrAlreadyRunning while
\* the call whose poller is recorded had not yet started its task, and a call
\* made after that one was refused too.
C16_Witness ==
    /\ wBusy = 2
    /\ wTasks = 0
    /\ \E c \in Callers : callPc[c] = "recorded" /\ wRecorded = callId[c]
    /\ \E c \in Callers : callRet[c] = "ErrAlreadyRunning" /\ callPc[c] = "idle"

\* ------------------------------------------------ scheduling and liveness

\* One process that does not crash, built with one configuration.
LiveInit ==
    /\ Init
    /\ batchSize = 1
    /\ confirmations = 0
    /\ retry = NoRetry

\* The steps of the poller's goroutine, of the goroutine Shutdown starts to
\* call Stop, and of a Sonar.Watch call past its shutdown check.
PollerStep ==
    \/ Watch_Enter
    \/ Watch_Load
    \/ Watch_StartLatest
    \/ Poll_Latest
    \/ Poll_Fetch
    \/ Poll_Emit
    \/ Poll_Save
    \/ Loop_Tick
    \/ Loop_Done

StopStep == Stop_Cancel \/ Stop_Return

WatchStep == SonarWatch_Record \/ SonarWatch_Go

LiveNext ==
    \/ SonarWatch_Enter
    \/ SonarWatch_Record
    \/ SonarWatch_Go
    \/ Shutdown_Begin
    \/ Stop_Cancel
    \/ Stop_Return
    \/ Shutdown_Return
    \/ Watch_Enter
    \/ Watch_Load
    \/ Watch_StartLatest
    \/ Poll_Latest
    \/ Poll_Fetch
    \/ Poll_Emit
    \/ Poll_Save
    \/ Loop_Tick
    \/ Loop_Done

\* The Go scheduler: a goroutine that can step does step; RPC and cursor calls
\* return; the ticker keeps firing.  Which ready case a select takes is not
\* the scheduler's choice.
LiveSpec ==
    /\ LiveInit
    /\ [][LiveNext]_vars
    /\ WF_vars(PollerStep)
    /\ WF_vars(StopStep)
    /\ WF_vars(WatchStep)
    /\ WF_vars(Shutdown_Return)

\* poller.go 114-116: the select's pseudo-random choice among its ready cases
\* does not pass over a ctx.Done() that is ready time after time.
SelectTakesDone == SF_vars(Loop_Done)

\* C17: when Shutdown has returned the context error, the stop of the recorded
\* watcher goes on in the background and the watcher's task exits in the end.
C17_DeadlineStillStops ==
    SelectTakesDone =>
        ((shutPc = "retCtx" /\ stopPc # "nostop") ~> pc = "done")

MaxMws == 3

\* How many logs are passed to the pipeline.
MaxLogs == 3

\* Logger, Metrics, RateLimit, and a user middleware that returns nil without
\* calling next.
Middlewares == {"logger", "metrics", "ratelimit", "drop"}

Droppers == {"ratelimit", "drop"}

\* The terminal handler of buildHandler: it calls the user's handler.
UserHandler == "handler"

\* The lists given to Use: every middleware instance is added once.
MwLists ==
    {l \in UNION {[1 .. n -> Middlewares] : n \in 0 .. MaxMws} :
        \A i, j \in 1 .. Len(l) : l[i] = l[j] => i = j}

Intervals == {1, 2}

\* mws[i].Wrap(handler): a Handler that runs mws[i], which is given handler
\* as its next.  A Handler is written as what it enters, outermost first.
WrapInside(m, next) == next \o <<m>>

Wrap(m, next) == <<m>> \o next

\* Chain, ratelimit.go 59-64: for i := len(mws) - 1; i >= 0; i--.
RECURSIVE ChainLoop(_, _, _)
ChainLoop(handler, mws, i) ==
    IF i < 1 THEN handler ELSE ChainLoop(Wrap(mws[i], handler), mws, i - 1)

Chain(handler, mws) == ChainLoop(handler, mws, Len(mws))

\* sonar.go 217-224.
buildHandler(mws) == Chain(<<UserHandler>>, mws)

\* ratelimit.go 29: time.Since(r.last) < r.interval.
LimitedNever == FALSE

Limited == rlLast # ZeroTime /\ now - rlLast < rlInterval

\* metrics.go 24-28: result != nil counts as processed, nil as dropped.
CountsAlways(result) == TRUE

CountsProcessed(result) == result

PipelineInit ==
    /\ PollerIdle
    /\ LateIdle
    /\ DriverIdle
    /\ BreakerIdle
    /\ CallersIdle
    /\ plMws \in MwLists
    /\ rlInterval \in Intervals
    /\ plChain = <<>>
    /\ plDir = "unbuilt"
    /\ plPos = 0
    /\ plResult = FALSE
    /\ plTrace = <<>>
    /\ rlLast = ZeroTime
    /\ submitted = 0
    /\ delivered = 0
    /\ processed = 0
    /\ dropped = 0

\* sonar.go 88: finalHandler := buildHandler(handler, s.middlewares).
Pipeline_Build ==
    /\ plDir = "unbuilt"
    /\ plChain' = buildHandler(plMws)
    /\ plDir' = "idle"
    /\ UNCHANGED <<plMws, plPos, plResult, plTrace, rlInterval, rlLast, submitted,
                   delivered, processed, dropped, now, notPipeline>>

\* sonar.go 92-93: the poller's event callback calls finalHandler(log).
Pipeline_Submit ==
    /\ plDir = "idle"
    /\ submitted < MaxLogs
    /\ submitted' = submitted + 1
    /\ plDir' = "down"
    /\ plPos' = 1
    /\ plTrace' = <<>>
    /\ plResult' = FALSE
    /\ UNCHANGED <<plMws, plChain, rlInterval, rlLast, delivered, processed, dropped,
                   now, notPipeline>>

\* The Handler at plPos is entered: Logger (logger.go) and Metrics
\* (metrics.go 23) call next; RateLimit (ratelimit.go 28-36) returns nil or
\* sets last and calls next; the terminal handler (sonar.go 218-221) calls the
\* user's handler and returns the log.
Pipeline_Enter ==
    /\ plDir = "down"
    /\ plTrace' = Append(plTrace, plChain[plPos])
    /\ \/ /\ plChain[plPos] \in {"logger", "metrics"}
          /\ plPos' = plPos + 1
          /\ UNCHANGED <<plDir, plResult, rlLast, delivered>>
       \/ /\ plChain[plPos] = "ratelimit"
          /\ IF Limited
               THEN plDir' = "up" /\ plResult' = FALSE /\ UNCHANGED <<plPos, rlLast>>
               ELSE rlLast' = now /\ plPos' = plPos + 1 /\ UNCHANGED <<plDir, plResult>>
          /\ UNCHANGED delivered
       \/ /\ plChain[plPos] = "drop"
          /\ plDir' = "up"
          /\ plResult' = FALSE
          /\ UNCHANGED <<plPos, rlLast, delivered>>
       \/ /\ plChain[plPos] = UserHandler
          /\ delivered' = delivered + 1
          /\ plDir' = "up"
          /\ plResult' = TRUE
          /\ UNCHANGED <<plPos, rlLast>>
    /\ UNCHANGED <<plMws, plChain, rlInterval, submitted, processed, dropped, now,
                   notPipeline>>

\* The Handler at plPos returns plResult to the one that called it: Metrics
\* (metrics.go 24-29) counts it and returns it, Logger returns it; the outermost
\* returns to the event callback.
Pipeline_Return ==
    /\ plDir = "up"
    /\ IF plPos = 1
         THEN plDir' = "idle" /\ plPos' = 0 /\ UNCHANGED <<processed, dropped>>
         ELSE /\ plPos' = plPos - 1
              /\ plDir' = plDir
              /\ IF plChain[plPos - 1] = "metrics"
                   THEN IF CountsProcessed(plResult)
                          THEN processed' = processed + 1 /\ dropped' = dropped
                          ELSE dropped' = dropped + 1 /\ processed' = processed
                   ELSE UNCHANGED <<processed, dropped>>
    /\ UNCHANGED <<plMws, plChain, plResult, plTrace, rlInterval, rlLast, submitted,
                   delivered, now, notPipeline>>

PipelineNext ==
    \/ Pipeline_Build
    \/ Pipeline_Submit
    \/ Pipeline_Enter
    \/ Pipeline_Return
    \/ Clock_Tick

PipelineSpec == PipelineInit /\ [][PipelineNext]_vars

IsPrefix(a, b) == Len(a) <= Len(b) /\ \A i \in 1 .. Len(a) : a[i] = b[i]

\* C19: a log enters mws[0], mws[1], ..., then the user handler, in that
\* order; when a middleware returns nil without calling next, nothing after it
\* is entered and the pipeline returns nil; otherwise the handler is reached.
C19_OrderAndDrop ==
    plDir # "unbuilt" =>
        /\ IsPrefix(plTrace, plMws \o <<UserHandler>>)
        /\ (plDir \in {"up", "idle"} /\ plTrace # <<>>) =>
              IF plTrace[Len(plTrace)] = UserHandler
                THEN plResult
                ELSE ~plResult /\ plTrace[Len(plTrace)] \in Droppers

\* C19 witness: the second of three middlewares has dropped the log; the
\* third and the handler were not entered and the pipeline has returned nil.
C19_Witness ==
    /\ plDir = "idle"
    /\ plMws = <<"logger", "drop", "metrics">>
    /\ plTrace = <<"logger", "drop">>
    /\ ~plResult
    /\ delivered = 0

HasMetrics == \E i \in 1 .. Len(plMws) : plMws[i] = "metrics"

\* The Metrics middleware comes before every middleware that can drop.
MetricsBeforeDroppers ==
    \A i, j \in 1 .. Len(plMws) :
        (plMws[i] = "metrics" /\ plMws[j] \in Droppers) => i < j

\* C20 as stated: wherever Metrics stands in the list, every log passed to the
\* pipeline increments one of its counters: processed when the log reached
\* the handler, dropped otherwise.
C20_DropsCounted ==
    (plDir = "idle" /\ HasMetrics) =>
        (processed + dropped = submitted /\ processed = delivered)

\* C20 amended: the same, for lists in which Metrics comes before every
\* middleware that drops.
C20_DropsCountedOutside ==
    (plDir = "idle" /\ HasMetrics /\ MetricsBeforeDroppers) =>
        (processed + dropped = submitted /\ processed = delivered)

\* C20 witness: Metrics before the rate limiter; of two logs the first was
\* delivered, the second dropped by the limiter, and both were counted.
C20_Witness ==
    /\ plDir = "idle"
    /\ plMws = <<"metrics", "ratelimit">>
    /\ submitted = 2
    /\ processed = 1
    /\ dropped = 1
    /\ delivered = 1

\* ------------------------------------- RateLimit.Wrap called concurrently

\* How many tasks call the Handler returned by RateLimit.Wrap.
NumTasks == 2

Tasks == 1 .. NumTasks

\* The time time.Now() reads at ratelimit.go 33, after time.Since read the
\* clock at line 29: the same instant or a later one.
LaterReadings == {t \in {now, now + 1} : t <= MaxTime}

GateInit ==
    /\ PollerIdle
    /\ DriverIdle
    /\ BreakerIdle
    /\ CallersIdle
    /\ plMws = <<>>
    /\ plChain = <<>>
    /\ plDir = "unbuilt"
    /\ plPos = 0
    /\ plResult = FALSE
    /\ plTrace = <<>>
    /\ rlInterval \in Intervals
    /\ rlLast = ZeroTime
    /\ submitted = 0
    /\ delivered = 0
    /\ processed = 0
    /\ dropped = 0
    /\ gate = [pc |-> [t \in Tasks |-> "idle"], admitted |-> <<>>]
    /\ bcast = Unbuilt
    /\ rdo = Unbuilt
    /\ replay = Unbuilt
    /\ fcur = Unbuilt
    /\ wdec = Unbuilt
    /\ LastIdle

\* ratelimit.go 28-35: the section under r.mu of a call by task t.  Within
\* interval of r.last the call returns nil; otherwise it sets r.last and goes
\* on to call next.
RateLimit_Wrap(t) ==
    /\ gate.pc[t] = "idle"
    /\ submitted < MaxLogs
    /\ submitted' = submitted + 1
    /\ IF Limited
         THEN UNCHANGED <<now, rlLast, gate>>
         ELSE \E t2 \in LaterReadings :
                 /\ now' = t2
                 /\ rlLast' = t2
                 /\ gate' = [pc |-> [gate.pc EXCEPT ![t] = "next"],
                             admitted |-> Append(gate.admitted, t2)]
    /\ UNCHANGED <<rlInterval, delivered, notGate>>

\* ratelimit.go 36: return next(lg), outside r.mu.
RateLimit_Next(t) ==
    /\ gate.pc[t] = "next"
    /\ delivered' = delivered + 1
    /\ gate' = [gate EXCEPT !.pc[t] = "idle"]
    /\ UNCHANGED <<now, rlInterval, rlLast, submitted, notGate>>

GateNext ==
    \/ \E t \in Tasks : RateLimit_Wrap(t)
    \/ \E t \in Tasks : RateLimit_Next(t)
    \/ Clock_Tick

GateSpec == GateInit /\ [][GateNext]_vars

\* The tasks that are about to call next.
InNext == {t \in Tasks : gate.pc[t] = "next"}

\* C21: the first log seen is admitted; a log that arrives less than interval
\* after the last admitted log is dropped, next is not called for it and the
\* last-admitted time stays; any two admitted logs are at least interval
\* apart, with the Handler called from several tasks at once.
C21_Gate ==
    /\ [](/\ (submitted >= 1 => Len(gate.admitted) >= 1)
          /\ \A i, j \in 1 .. Len(gate.admitted) :
                i < j => gate.admitted[j] - gate.admitted[i] >= rlInterval
          /\ delivered + Cardinality(InNext) = Len(gate.admitted))
    /\ [][submitted' = submitted + 1 /\ rlLast # ZeroTime /\ now - rlLast < rlInterval
            => rlLast' = rlLast /\ gate' = gate /\ delivered' = delivered]_vars

\* Two tasks are in next at once, three logs were seen and one was dropped.
C21_Witness ==
    /\ Cardinality(InNext) = 2
    /\ submitted = 3
    /\ Len(gate.admitted) = 2

\* ----------------------------------- subscriber.Channel, Callback, Broadcast

\* How many subscribers are built and added to the Broadcast.
MaxSubs == 2

\* How many logs are passed to Broadcast.Send.
MaxSends == 2

\* channel.go 16: the buffer size used when the requested one is <= 0.
DefaultBufSize == 128

\* The bufSize arguments NewChannel is called with.
BufSizes == {0, 1}

\* The tasks that call Broadcast.Send: two calls can hold b.mu.RLock at once.
Senders == {1, 2}

\* No Send in progress on a task.
NoSend == [log |-> 0, idx |-> 0, called |-> <<>>]

\* channel.go 14-22: the subscriber NewChannel(bufSize) returns; cap is
\* cap(c.ch), buf the logs in c.ch, closed whether c.done is closed.
NewChannel(id, bufSize) ==
    [id |-> id, kind |-> "channel", req |-> bufSize,
     cap |-> IF bufSize <= 0 THEN DefaultBufSize ELSE bufSize,
     buf |-> <<>>, closed |-> FALSE]

\* callback.go 17-22: buf holds the logs c.fn was called with.
NewCallback(id) ==
    [id |-> id, kind |-> "callback", req |-> 0, cap |-> 0, buf |-> <<>>, closed |-> FALSE]

\* channel.go 32: the case c.ch <- log can proceed.
RoomAlways(sub) == TRUE

Room(sub) == Len(sub.buf) < sub.cap

\* channel.go 30-37: what one Send(log) can leave the subscriber as.  The
\* select takes a case that can proceed, any of them when c.done is closed and
\* c.ch has room, and the default when none can.
Channel_Send(sub, log) ==
    LET enqueued == [sub EXCEPT !.buf = Append(@, log)]
    IN  IF sub.closed
          THEN IF Room(sub) THEN {enqueued, sub} ELSE {sub}
          ELSE IF Room(sub) THEN {enqueued} ELSE {sub}

\* callback.go 25-32: nothing when c.done is closed, c.fn(log) otherwise.
Callback_Send(sub, log) ==
    IF sub.closed THEN {sub} ELSE {[sub EXCEPT !.buf = Append(@, log)]}

Subscriber_Send(sub, log) ==
    IF sub.kind = "channel" THEN Channel_Send(sub, log) ELSE Callback_Send(sub, log)

\* Some Send holds b.mu.RLock, so that Lock waits.
ReadLockedNever == FALSE

ReadLocked == \E s \in Senders : bcast.sends[s] # NoSend

BcastInit ==
    /\ EarlyIdle
    /\ bcast = [subs |-> <<>>, sends |-> [s \in Senders |-> NoSend],
                added |-> 0, sent |-> 0]
    /\ gate = Unbuilt
    /\ rdo = Unbuilt
    /\ replay = Unbuilt
    /\ fcur = Unbuilt
    /\ wdec = Unbuilt
    /\ LastIdle

\* part_007 21-25: Add, under b.mu.Lock.
Broadcast_Add ==
    /\ ~ReadLocked
    /\ bcast.added < MaxSubs
    /\ \E sub \in {NewChannel(bcast.added + 1, n) : n \in BufSizes}
                    \cup {NewCallback(bcast.added + 1)} :
          bcast' = [bcast EXCEPT !.subs = Append(@, sub), !.added = @ + 1]
    /\ UNCHANGED notBcast

\* part_007 28-29: Send takes b.mu.RLock.
Broadcast_Send(s) ==
    /\ bcast.sends[s] = NoSend
    /\ bcast.sent < MaxSends
    /\ bcast' = [bcast EXCEPT !.sends[s] = [log |-> bcast.sent + 1, idx |-> 1, called |-> <<>>],
                              !.sent = @ + 1]
    /\ UNCHANGED notBcast

\* part_007 31-33: one iteration of the loop, sub.Send(log).
Broadcast_Each(s) ==
    LET snd == bcast.sends[s]
    IN  /\ snd # NoSend
        /\ snd.idx <= Len(bcast.subs)
        /\ \E sub \in Subscriber_Send(bcast.subs[snd.idx], snd.log) :
              bcast' = [bcast EXCEPT !.subs[snd.idx] = sub,
                                     !.sends[s].idx = @ + 1,
                                     !.sends[s].called = Append(@, sub.id)]
        /\ UNCHANGED notBcast

\* part_007 30, 34: the loop is over, Send releases b.mu.RLock and returns.
Broadcast_Return(s) ==
    LET snd == bcast.sends[s]
    IN  /\ snd # NoSend
        /\ snd.idx > Len(bcast.subs)
        /\ bcast' = [bcast EXCEPT !.sends[s] = NoSend]
        /\ UNCHANGED notBcast

\* part_007 37-44: Close, under b.mu.Lock, closes every subscriber and drops
\* the list.
Broadcast_Close ==
    /\ ~ReadLocked
    /\ bcast' = [bcast EXCEPT !.subs = <<>>]
    /\ UNCHANGED notBcast

\* channel.go 40-46, callback.go 35-41: the subscriber's owner closes it.
Subscriber_Close(i) ==
    /\ i \in 1 .. Len(bcast.subs)
    /\ ~bcast.subs[i].closed
    /\ bcast' = [bcast EXCEPT !.subs[i].closed = TRUE]
    /\ UNCHANGED notBcast

\* channel.go 25-27: the consumer receives from Logs().
Channel_Receive(i) ==
    /\ i \in 1 .. Len(bcast.subs)
    /\ bcast.subs[i].kind = "channel"
    /\ bcast.subs[i].buf # <<>>
    /\ bcast' = [bcast EXCEPT !.subs[i].buf = Tail(@)]
    /\ UNCHANGED notBcast

BcastNext ==
    \/ Broadcast_Add
    \/ \E s \in Senders : Broadcast_Send(s)
    \/ \E s \in Senders : Broadcast_Each(s)
    \/ \E s \in Senders : Broadcast_Return(s)
    \/ Broadcast_Close
    \/ \E i \in 1 .. MaxSubs : Subscriber_Close(i)
    \/ \E i \in 1 .. MaxSubs : Channel_Receive(i)

BcastSpec == BcastInit /\ [][BcastNext]_vars

\* The subscriber a Send in progress calls next.
Target(s) == bcast.subs[bcast.sends[s].idx]

\* The step is an iteration of the loop of the Send of task s.
EachStep(s) ==
    /\ bcast.sends[s] # NoSend
    /\ bcast'.sends[s] # NoSend
    /\ bcast'.sends[s].idx = bcast.sends[s].idx + 1

\* C22: a Send to a channel subscriber never blocks; an open subscriber with
\* fewer than c logs buffered enqueues the log behind them, one with c logs
\* buffered drops it and keeps its buffer; c is the requested capacity, 128
\* when that is <= 0; the buffer never holds more than c logs.
C22_ChannelSend ==
    /\ [](\A i \in 1 .. Len(bcast.subs) :
             bcast.subs[i].kind = "channel" =>
                /\ Len(bcast.subs[i].buf) <= bcast.subs[i].cap
                /\ bcast.subs[i].cap =
                      (IF bcast.subs[i].req <= 0 THEN 128 ELSE bcast.subs[i].req))
    /\ [](\A s \in Senders :
             bcast.sends[s] # NoSend => ENABLED (Broadcast_Each(s) \/ Broadcast_Return(s)))
    /\ [][\A s \in Senders :
             EachStep(s) /\ Target(s).kind = "channel" /\ ~Target(s).closed =>
                bcast'.subs[bcast.sends[s].idx].buf =
                   (IF Len(Target(s).buf) < Target(s).cap
                      THEN Append(Target(s).buf, bcast.sends[s].log)
                      ELSE Target(s).buf)]_vars

\* The Send of log 2 has called an open channel subscriber of capacity 1 that
\* held log 1, and the subscriber still holds log 1 alone.
C22_Witness ==
    \E s \in Senders :
        /\ bcast.sends[s] # NoSend
        /\ bcast.sends[s].log = 2
        /\ bcast.sends[s].idx = 2
        /\ bcast.sent = 2
        /\ Len(bcast.subs) >= 1
        /\ bcast.subs[1].kind = "channel"
        /\ ~bcast.subs[1].closed
        /\ bcast.subs[1].req = 1
        /\ bcast.subs[1].buf = <<1>>

\* The ids of the subscribers in b.subs, in list order.
SubIds == [i \in 1 .. Len(bcast.subs) |-> bcast.subs[i].id]

\* C23: a Send calls Send once on each subscriber of the list, in the order
\* they were added; a full channel subscriber drops the log and the Send goes
\* on to the other subscribers, whose callbacks get it; Close leaves the list
\* empty and a Send made then calls no subscriber.
C23_FanOut ==
    /\ [](/\ \A i, j \in 1 .. Len(bcast.subs) : i < j => bcast.subs[i].id < bcast.subs[j].id
          /\ \A s \in Senders :
                bcast.sends[s] # NoSend =>
                   /\ bcast.sends[s].idx - 1 <= Len(bcast.subs)
                   /\ bcast.sends[s].called = SubSeq(SubIds, 1, bcast.sends[s].idx - 1)
                   /\ ENABLED (Broadcast_Each(s) \/ Broadcast_Return(s)))
    /\ [][Len(bcast'.subs) < Len(bcast.subs) => bcast'.subs = <<>>]_vars
    /\ [][\A s \in Senders :
             /\ (bcast.sends[s] # NoSend /\ bcast'.sends[s] = NoSend =>
                    bcast.sends[s].called = SubIds /\ bcast'.subs = bcast.subs)
             /\ (EachStep(s) /\ Target(s).kind = "callback" /\ ~Target(s).closed =>
                    bcast'.subs[bcast.sends[s].idx].buf =
                       Append(Target(s).buf, bcast.sends[s].log))]_vars

\* Two logs were sent to a channel subscriber of capacity 1 followed by a
\* callback subscriber: the channel holds the first, the callback got both.
C23_Witness ==
    /\ Len(bcast.subs) = 2
    /\ bcast.subs[1].kind = "channel"
    /\ bcast.subs[1].cap = 1
    /\ bcast.subs[1].buf = <<1>>
    /\ bcast.subs[2].kind = "callback"
    /\ bcast.subs[2].buf = <<1, 2>>
    /\ bcast.sent = 2
    /\ ~ReadLocked

\* ------------------------------------------------- retry.Do, retry.Backoff

\* time.Duration, an int64 count of nanoseconds, is modelled as a signed
\* integer of DurBits bits.
DurBits == 5

\* The largest Backoff.MaxAttempts.
MaxRetries == 3

MaxDur == 2 ^ (DurBits - 1) - 1

MinDur == 0 - 2 ^ (DurBits - 1)

\* Backoff.InitialDelay, Backoff.MaxDelay and Backoff.Multiplier (0: unset).
InitialDelays == {1, 2}

MaxDelays == {3, MaxDur}

Multipliers == {0, 1, 2, 3}

Backoffs ==
    [MaxAttempts : 0 .. MaxRetries, InitialDelay : InitialDelays,
     MaxDelay : MaxDelays, Multiplier : Multipliers]

\* math.Pow(m, k) for whole m >= 1 and k >= 0.
RECURSIVE Pow(_, _)
Pow(m, k) == IF k <= 0 THEN 1 ELSE m * Pow(m, k - 1)

\* backoff.go 45: time.Duration(delay), the float64 to int64 conversion.  A
\* value within the range converts to itself.  For a value out of the range
\* the result depends on the implementation: the smallest int64 on amd64, the
\* largest on arm64.
Duration(delay) ==
    IF MinDur <= delay /\ delay <= MaxDur THEN {delay} ELSE {MinDur, MaxDur}

\* backoff.go 35: attempt > b.MaxAttempts.
ExhaustedLate(b, attempt) == attempt > b.MaxAttempts + 1

Exhausted(b, attempt) == attempt > b.MaxAttempts

\* backoff.go 34-51: the (delay, ok) pairs Next(attempt) can return.
Backoff_Next(b, attempt) ==
    IF Exhausted(b, attempt)
      THEN {<<0, FALSE>>}
      ELSE LET multiplier == IF b.Multiplier = 0 THEN 2 ELSE b.Multiplier
               delay == b.InitialDelay * Pow(multiplier, attempt - 1)
           IN  {<<IF d > b.MaxDelay THEN b.MaxDelay ELSE d, TRUE>> : d \in Duration(delay)}

\* The select of strategy.go 32-36 with Do blocked in it: the first of the two
\* channels to become ready wakes Do, what the other does later is not seen.
WokenByLast(event) == event

WokenBy(event) == IF rdo.wake = "none" THEN event ELSE rdo.wake

RetryInit ==
    /\ EarlyIdle
    /\ \E b \in Backoffs :
          rdo = [b |-> b, pc |-> "call", attempt |-> 0, calls |-> 0, delay |-> 0,
                 prev |-> 0, ret |-> "none", err |-> 0, cancelled |-> FALSE,
                 wake |-> "none", cancelAt |-> 0 - 1]
    /\ gate = Unbuilt
    /\ bcast = Unbuilt
    /\ replay = Unbuilt
    /\ fcur = Unbuilt
    /\ wdec = Unbuilt
    /\ LastIdle

\* strategy.go 21-30: fn is invoked.  It succeeds and Do returns nil, or it
\* fails with an error of its own, attempt is incremented and the strategy
\* either ends the retries, and Do returns that error, or gives the delay.
Do_Call ==
    /\ rdo.pc = "call"
    /\ \/ rdo' = [rdo EXCEPT !.calls = @ + 1, !.pc = "done", !.ret = "nil"]
       \/ \E r \in Backoff_Next(rdo.b, rdo.attempt + 1) :
             IF r[2]
               THEN rdo' = [rdo EXCEPT !.calls = @ + 1, !.attempt = @ + 1,
                                       !.pc = "select", !.prev = rdo.delay, !.delay = r[1]]
               ELSE rdo' = [rdo EXCEPT !.calls = @ + 1, !.attempt = @ + 1,
                                       !.pc = "done", !.ret = "err", !.err = rdo.calls + 1]
    /\ UNCHANGED notRetry

\* strategy.go 32-36: Do enters the select.  With the context cancelled
\* already it returns ctx.Err(), unless the timer of a delay <= 0 is ready as
\* well and is taken; otherwise Do blocks.
Do_Select ==
    /\ rdo.pc = "select"
    /\ IF rdo.cancelled
         THEN \/ rdo' = [rdo EXCEPT !.pc = "done", !.ret = "ctx"]
              \/ rdo.delay <= 0 /\ rdo' = [rdo EXCEPT !.pc = "call"]
         ELSE rdo' = [rdo EXCEPT !.pc = "sleep"]
    /\ UNCHANGED notRetry

\* The caller cancels the context.
Ctx_Cancel ==
    /\ rdo.pc # "done"
    /\ ~rdo.cancelled
    /\ rdo' = [rdo EXCEPT !.cancelled = TRUE,
                          !.wake = IF rdo.pc = "sleep" THEN WokenBy("ctx") ELSE @,
                          !.cancelAt = IF rdo.pc = "sleep" /\ rdo.wake = "none"
                                         THEN rdo.calls ELSE @]
    /\ UNCHANGED notRetry

\* strategy.go 35: the timer of time.After(delay) fires.
Timer_Fire ==
    /\ rdo.pc = "sleep"
    /\ rdo.wake # "timer"
    /\ rdo' = [rdo EXCEPT !.wake = WokenBy("timer")]
    /\ rdo' # rdo
    /\ UNCHANGED notRetry

\* strategy.go 33-36: Do is woken, by ctx.Done() and returns ctx.Err(), or by
\* the timer and goes round the loop.
Do_Wake ==
    /\ rdo.pc = "sleep"
    /\ rdo.wake # "none"
    /\ rdo' = IF rdo.wake = "ctx"
                THEN [rdo EXCEPT !.pc = "done", !.ret = "ctx", !.wake = "none"]
                ELSE [rdo EXCEPT !.pc = "call", !.wake = "none"]
    /\ UNCHANGED notRetry

RetryNext ==
    \/ Do_Call
    \/ Do_Select
    \/ Do_Wake
    \/ Ctx_Cancel
    \/ Timer_Fire

\* The goroutine that runs Do is scheduled; when the context is cancelled and
\* when the timer fires is up to the caller and the clock.
RetrySpec ==
    RetryInit /\ [][RetryNext]_vars /\ WF_vars(Do_Call \/ Do_Select \/ Do_Wake)

\* C24: with MaxAttempts = n, Do invokes fn at most n + 1 times; after a
\* success it returns nil and invokes fn no more; when it returns fn's error
\* fn was invoked exactly n + 1 times and the error is the one of the last
\* invocation; when every invocation failed and the context did not end Do,
\* that is how it returns.
C24_DoAttempts ==
    /\ [](/\ rdo.calls <= rdo.b.MaxAttempts + 1
          /\ (rdo.ret = "nil" => rdo.pc = "done" /\ rdo.err = 0)
          /\ (rdo.ret = "err" =>
                 rdo.pc = "done" /\ rdo.calls = rdo.b.MaxAttempts + 1 /\ rdo.err = rdo.calls)
          /\ (rdo.pc = "done" => rdo.ret \in {"nil", "err", "ctx"})
          /\ (rdo.pc # "done" => rdo.ret = "none" /\ rdo.attempt = rdo.calls))
    /\ [][rdo.pc = "done" => rdo' = rdo]_vars
    /\ [][rdo'.ret = "nil" /\ rdo.ret # "nil" => rdo'.calls = rdo.calls + 1]_vars

\* Do has returned fn's error after two retries.
C24_Witness ==
    /\ rdo.pc = "done"
    /\ rdo.ret = "err"
    /\ rdo.b.MaxAttempts = 2
    /\ rdo.calls = 3

\* C25: when the context is cancelled while Do sleeps between attempts, Do
\* invokes fn no more and returns the context's error.
C25_CancelInSleep ==
    /\ [](rdo.cancelAt >= 0 =>
             /\ rdo.calls = rdo.cancelAt
             /\ rdo.pc \in {"sleep", "done"}
             /\ (rdo.pc = "done" => rdo.ret = "ctx"))
    /\ ((rdo.cancelAt >= 0) ~> (rdo.pc = "done" /\ rdo.ret = "ctx"))

\* Do has returned the context's error after a cancellation during the
\* sleep that followed the second failure, and the timer fired after it.
C25_Witness ==
    /\ rdo.pc = "done"
    /\ rdo.ret = "ctx"
    /\ rdo.cancelAt = 2
    /\ rdo.calls = 2

\* min(initial * multiplier^(attempt-1), max_delay) for the attempt made last.
SpecifiedDelay ==
    LET m == IF rdo.b.Multiplier = 0 THEN 2 ELSE rdo.b.Multiplier
        p == rdo.b.InitialDelay * Pow(m, rdo.attempt - 1)
    IN  IF p > rdo.b.MaxDelay THEN rdo.b.MaxDelay ELSE p

\* C26: Next(attempt) refuses exactly when attempt > max_attempts; the delay
\* it returns otherwise is min(initial * multiplier^(attempt-1), max_delay),
\* lies in 0 .. max_delay and is not below the delay of the attempt before,
\* also when the product leaves the range of a duration.
C26_DelayInRange ==
    /\ (rdo.ret = "err" => rdo.attempt > rdo.b.MaxAttempts)
    /\ (rdo.pc \in {"select", "sleep"} =>
           /\ rdo.attempt <= rdo.b.MaxAttempts
           /\ rdo.delay = SpecifiedDelay
           /\ 0 <= rdo.delay
           /\ rdo.delay <= rdo.b.MaxDelay
           /\ rdo.prev <= rdo.delay)

\* ---------------------------------------------------------- watcher.Replay

\* Replay's block numbers: uint64 modelled as an unsigned integer of
\* ReplayBits bits, wide enough for the default batch size.
ReplayBits == 12

\* How many ranges the query asks for at most: a range of batchSize blocks
\* each, the last one shorter.
MaxRanges == 3

\* How many of the ranges fetched first are recorded.
MaxFetches == 2

\* part_014 54: the batch size used when the given one is 0.
DefaultBatchSize == 2000

ReplayMod == 2 ^ ReplayBits

ReplayMaxUint == ReplayMod - 1

R64(x) == x % ReplayMod

\* A nil *uint64 of the query.
NilBlock == 0 - 1

\* The FromBlock / ToBlock values of the query and the batchSize arguments.
Endpoints == {NilBlock, 0, 1, DefaultBatchSize, ReplayMaxUint - 1, ReplayMaxUint}

BatchArgs == {0, 1, 2, ReplayMaxUint}

\* part_014 53-55.
NewReplayBatchSize(size) == IF size = 0 THEN DefaultBatchSize ELSE size

\* How many ranges of b blocks cover [from, to].
RangesNeeded(from, to, b) == IF from > to THEN 0 ELSE (to - from + b) \div b

ReplayConfigs ==
    {c \in [from : Endpoints, to : Endpoints, batchSize : BatchArgs] :
        c.from # NilBlock /\ c.to # NilBlock =>
            RangesNeeded(c.from, c.to, NewReplayBatchSize(c.batchSize)) <= MaxRanges}

\* part_014 102-105: batchEnd := from + r.batchSize - 1, capped at to.
BatchEnd(from, to, b) ==
    LET batchEnd == R64(from + b - 1)
    IN  IF batchEnd > to THEN to ELSE batchEnd

\* What the driver returns for [from, to] when it answers: one log of the
\* range's last block and one of its first, in that order; nothing for an
\* empty range.
ReplayLogs(from, to) ==
    IF from > to THEN <<>>
    ELSE IF from = to THEN <<<<from, 0>>>>
    ELSE <<<<to, 0>>, <<from, 0>>>>

ReplayInit ==
    /\ EarlyIdle
    /\ \E c \in ReplayConfigs :
          replay = [from |-> c.from, to |-> c.to,
                    batchSize |-> NewReplayBatchSize(c.batchSize),
                    pc |-> "none", cur |-> 0, batchEnd |-> 0, pending |-> <<>>,
                    recording |-> FALSE, ranges |-> <<>>, emitted |-> <<>>,
                    errs |-> <<>>, ret |-> "none", ctxDone |-> FALSE, fetched |-> FALSE]
    /\ gate = Unbuilt
    /\ bcast = Unbuilt
    /\ rdo = Unbuilt
    /\ fcur = Unbuilt
    /\ wdec = Unbuilt
    /\ LastIdle

\* part_014 79-93: Watch is called; without FromBlock or ToBlock it returns
\* an error.
Replay_Watch ==
    /\ replay.pc = "none"
    /\ IF replay.from = NilBlock \/ replay.to = NilBlock
         THEN replay' = [replay EXCEPT !.pc = "done", !.ret = "err"]
         ELSE replay' = [replay EXCEPT !.pc = "loop", !.cur = replay.from]
    /\ UNCHANGED notReplay

\* part_014 95-116: one iteration up to the result of FetchLogs.  With the
\* context cancelled Watch returns nil.  A failed fetch is reported and the
\* scan moves past the range.
Replay_Fetch ==
    /\ replay.pc = "loop"
    /\ replay.cur <= replay.to
    /\ IF replay.ctxDone
         THEN replay' = [replay EXCEPT !.pc = "done", !.ret = "nil"]
         ELSE LET batchEnd == BatchEnd(replay.cur, replay.to, replay.batchSize)
                  rec == Len(replay.ranges) < MaxFetches
                  logs == ReplayLogs(replay.cur, batchEnd)
                  range(ok) == [from |-> replay.cur, to |-> batchEnd, ok |-> ok]
              IN  \/ replay' = [replay EXCEPT
                        !.fetched = TRUE,
                        !.batchEnd = batchEnd,
                        !.ranges = IF rec THEN Append(@, range(FALSE)) ELSE @,
                        !.errs = IF rec THEN Append(@, <<replay.cur, batchEnd>>) ELSE @,
                        !.cur = R64(batchEnd + 1)]
                  \/ replay' = [replay EXCEPT
                        !.fetched = TRUE,
                        !.batchEnd = batchEnd,
                        !.ranges = IF rec THEN Append(@, range(TRUE)) ELSE @,
                        !.recording = rec,
                        !.pending = logs,
                        !.pc = IF logs = <<>> THEN "loop" ELSE "emit",
                        !.cur = IF logs = <<>> THEN R64(batchEnd + 1) ELSE @]
    /\ UNCHANGED notReplay

\* part_014 118-122: the next log of the range is emitted; after the last
\* one, from = batchEnd + 1.
Replay_Emit ==
    /\ replay.pc = "emit"
    /\ replay' = [replay EXCEPT
          !.emitted = IF replay.recording THEN Append(@, Head(replay.pending)) ELSE @,
          !.pending = Tail(@),
          !.pc = IF Len(replay.pending) = 1 THEN "loop" ELSE @,
          !.cur = IF Len(replay.pending) = 1 THEN R64(replay.batchEnd + 1) ELSE @]
    /\ UNCHANGED notReplay

\* part_014 95, 125: from > to, Watch returns nil.
Replay_Exit ==
    /\ replay.pc = "loop"
    /\ replay.cur > replay.to
    /\ replay' = [replay EXCEPT !.pc = "done", !.ret = "nil"]
    /\ UNCHANGED notReplay

\* part_014 129-139: Stop cancels the context Watch has made.
Replay_Stop ==
    /\ replay.pc \in {"loop", "emit"}
    /\ ~replay.ctxDone
    /\ replay' = [replay EXCEPT !.ctxDone = TRUE]
    /\ UNCHANGED notReplay

ReplayNext ==
    \/ Replay_Watch
    \/ Replay_Fetch
    \/ Replay_Emit
    \/ Replay_Exit
    \/ Replay_Stop

\* The task that runs Watch is scheduled; nobody has to call Stop.
ReplaySpec ==
    /\ ReplayInit
    /\ [][ReplayNext]_vars
    /\ WF_vars(Replay_Watch \/ Replay_Fetch \/ Replay_Emit \/ Replay_Exit)

\* The logs of the recorded ranges that were fetched, in order.
RECURSIVE FetchedLogs(_)
FetchedLogs(ranges) ==
    IF ranges = <<>> THEN <<>>
    ELSE (IF Head(ranges).ok THEN ReplayLogs(Head(ranges).from, Head(ranges).to) ELSE <<>>)
             \o FetchedLogs(Tail(ranges))

\* The recorded ranges whose fetch failed.
RECURSIVE FailedRanges(_)
FailedRanges(ranges) ==
    IF ranges = <<>> THEN <<>>
    ELSE (IF Head(ranges).ok THEN <<>> ELSE <<<<Head(ranges).from, Head(ranges).to>>>>)
             \o FailedRanges(Tail(ranges))

\* Every range fetched was recorded.
AllRecorded == Len(replay.ranges) < MaxFetches

\* C27: the ranges fetched start at from_block, are ascending, contiguous
\* and of at most batch-size blocks, and end at to_block when an unstopped
\* Watch returns; a failed range is reported and not fetched again; the logs
\* of a fetched range are emitted in returned order before the next fetch.
C27_Batches ==
    /\ \A i \in 1 .. Len(replay.ranges) :
          LET r == replay.ranges[i]
          IN  /\ r.from <= r.to
              /\ r.to <= replay.to
              /\ r.to - r.from + 1 <= replay.batchSize
              /\ r.from = (IF i = 1 THEN replay.from ELSE replay.ranges[i - 1].to + 1)
    /\ replay.errs = FailedRanges(replay.ranges)
    /\ (replay.pc = "loop" => replay.emitted = FetchedLogs(replay.ranges))
    /\ (replay.pc = "done" /\ replay.ret = "nil" /\ ~replay.ctxDone /\ AllRecorded
           /\ replay.from <= replay.to =>
              /\ replay.ranges # <<>>
              /\ replay.ranges[Len(replay.ranges)].to = replay.to)

\* C28: Watch returns after finitely many fetches for every from_block,
\* to_block and batch size, nobody calling Stop; with from_block or to_block
\* missing it returns an error and has fetched nothing; with
\* from_block > to_block it returns having fetched nothing.
C28_Terminates ==
    /\ [](replay.from = NilBlock \/ replay.to = NilBlock =>
             /\ ~replay.fetched
             /\ (replay.pc = "done" => replay.ret = "err"))
    /\ [](replay.from # NilBlock /\ replay.to # NilBlock /\ replay.from > replay.to =>
             /\ ~replay.fetched
             /\ (replay.pc = "done" => replay.ret = "nil"))
    /\ <>(replay.pc = "done")

\* -------------------------------------------------------------- cursor.File

\* How many Save calls are made.
MaxSaves == 2

\* The chains whose progress the file holds, and the blocks saved.
Chains == {"eth", "bsc"}

SavedBlocks == {1, 2}

\* A map[string]uint64 as a function: a chain that is not a key reads as 0.
EmptyData == [c \in Chains |-> 0]

\* What is at f.path: nothing, the complete JSON of a mapping ("full"), or
\* what os.WriteFile leaves when it does not finish: a file of length 0
\* ("empty") or the first bytes of the JSON ("partial").
NoFile == [state |-> "absent", data |-> EmptyData]

\* The chain a Load was made for, or none.
NotLoaded == 0 - 1

\* part_015 57-67: readAll succeeds when the file exists and holds a complete
\* JSON object.
Readable(file) == file.state = "full"

\* part_015 23-32: what Load(chain) returns, the error ignored: it is nil in
\* every case.
File_LoadValue(file, chain) == IF Readable(file) THEN file.data[chain] ELSE 0

\* part_015 39-42: the mapping Save starts from, a new one when readAll fails.
File_ReadData(file) == IF Readable(file) THEN file.data ELSE EmptyData

\* part_015 39-43: the mapping Save writes.
File_SaveData(file, chain, block) == [File_ReadData(file) EXCEPT ![chain] = block]

FileInit ==
    /\ EarlyIdle
    /\ fcur = [file |-> NoFile, pc |-> "idle", data |-> EmptyData, saves |-> 0,
               before |-> EmptyData, after |-> EmptyData, crashed |-> FALSE,
               load |-> [c \in Chains |-> NotLoaded]]
    /\ gate = Unbuilt
    /\ bcast = Unbuilt
    /\ rdo = Unbuilt
    /\ replay = Unbuilt
    /\ wdec = Unbuilt
    /\ LastIdle

\* part_015 35-52: Save(chain, block) reads the file and builds the new
\* mapping.
File_Save ==
    /\ fcur.pc = "idle"
    /\ ~fcur.crashed
    /\ fcur.saves < MaxSaves
    /\ \E chain \in Chains, block \in SavedBlocks :
          LET data == File_SaveData(fcur.file, chain, block)
          IN  fcur' = [fcur EXCEPT !.pc = "open", !.data = data, !.saves = @ + 1,
                                   !.before = File_ReadData(fcur.file),
                                   !.after = data]
    /\ UNCHANGED notFile

\* part_015 54: os.WriteFile opens f.path with O_CREATE|O_TRUNC, which leaves
\* a file of length 0.
File_Open ==
    /\ fcur.pc = "open"
    /\ fcur' = [fcur EXCEPT !.pc = "write", !.file = [state |-> "empty", data |-> EmptyData]]
    /\ UNCHANGED notFile

\* part_015 54: os.WriteFile writes the bytes, all of them or the first ones.
File_Write ==
    /\ fcur.pc = "write"
    /\ \/ fcur' = [fcur EXCEPT !.pc = "idle", !.file = [state |-> "full", data |-> fcur.data]]
       \/ /\ fcur.file.state = "empty"
          /\ fcur' = [fcur EXCEPT !.file = [state |-> "partial", data |-> EmptyData]]
    /\ UNCHANGED notFile

\* The process crashes during Save and is started again: the file stays as
\* it is.
File_Crash ==
    /\ fcur.pc # "idle"
    /\ fcur' = [fcur EXCEPT !.pc = "idle", !.crashed = TRUE]
    /\ UNCHANGED notFile

\* part_015 23-32: Load(chain), by the process started after the crash.
File_Load ==
    /\ fcur.pc = "idle"
    /\ fcur.crashed
    /\ \E chain \in Chains :
          /\ fcur.load[chain] = NotLoaded
          /\ fcur' = [fcur EXCEPT !.load[chain] = File_LoadValue(fcur.file, chain)]
    /\ UNCHANGED notFile

FileNext ==
    \/ File_Save
    \/ File_Open
    \/ File_Write
    \/ File_Crash
    \/ File_Load

FileSpec == FileInit /\ [][FileNext]_vars

\* The Loads made so far agree with the mapping m.
LoadsAgree(m) == \A c \in Chains : fcur.load[c] # NotLoaded => fcur.load[c] = m[c]

\* C29: after a crash at any point of a Save, the Loads of all chains read
\* the mapping from before the Save or the mapping after it, never less than
\* what was committed.
C29_AtomicSave == fcur.crashed => LoadsAgree(fcur.before) \/ LoadsAgree(fcur.after)

\* ------------------------------------------------------ Sonar.WatchDecoded

\* How many logs the poll cycle delivers.
MaxCycleLogs == 3

\* The offsets read from a log's data: uint64 modelled as an unsigned
\* integer of OffsetBits bits.
OffsetBits == 7

\* abi.go 170: the size of an ABI word in bytes.
WordSize == 32

OffsetMod == 2 ^ OffsetBits

O64(x) == x % OffsetMod

\* The event signatures that can be registered: Transfer(address,address,
\* uint256), whose parameters are static, and Message(string), whose one
\* parameter is dynamic.  The topics of a log: none, or topic[0] one of them.
Signatures == {"Transfer", "Message"}

DynamicEvents == {"Message"}

TopicLists == {<<>>} \cup {<<sig>> : sig \in Signatures}

\* The value of the head word of log.Data, the offset of a dynamic
\* parameter: the second word, or a value near the largest uint64.
Offsets == {WordSize, OffsetMod - WordSize \div 2}

Logs == [topics : TopicLists, offset : Offsets]

\* The logs FetchLogs returned for the cycle, in order.
CycleLogs == UNION {[1 .. n -> Logs] : n \in 0 .. MaxCycleLogs}

\* schema.go 45-51: Lookup finds the signature hash.
Lookup(registry, sig) == sig \in registry

\* abi.go 69-88: the inputs registerParsed stores for the two signatures.
Inputs(sig) ==
    IF sig \in DynamicEvents
    THEN <<[name |-> "text", type |-> "string", indexed |-> FALSE]>>
    ELSE <<[name |-> "from", type |-> "address", indexed |-> TRUE],
           [name |-> "to", type |-> "address", indexed |-> TRUE],
           [name |-> "value", type |-> "uint256", indexed |-> FALSE]>>

\* log.Data as a sequence of 32-byte words, each word given by its low 64
\* bits (big.Int.Uint64, abi.go 185); the offsets read are whole words.
DataLen(data) == WordSize * Len(data)

WordAt(data, offset) == data[offset \div WordSize + 1]

\* The largest int: make panics on a length or capacity above it (and on
\* smaller ones that exceed what can be allocated).
MaxInt == 2 ^ (OffsetBits - 1) - 1

MakeOk(n) == n <= MaxInt

\* The bounds check of the slice expression data[low : high].
SliceInRange(low, high, len) == low <= high /\ high <= len

\* A Go map as the set of its <<key, value>> pairs.
Keys(m) == {p[1] : p \in m}

Put(m, k, v) == {p \in m : p[1] # k} \cup {<<k, v>>}

\* The value a panic stands for: it unwinds every caller.
Panic == <<"panic", 0>>

\* abi.go 147-160.
isDynamic(typ) == typ \in {"string", "bytes", "uint256[]"}

\* abi.go 254-273: decodeDynamicBytes reads the length word at the offset
\* and copies the content; offset + 32 and contentStart + length are uint64
\* sums and wrap.
decodeDynamicBytes(data, offset) ==
    IF O64(offset + WordSize) > DataLen(data) THEN <<"nil", 0>>
    ELSE IF ~SliceInRange(offset, O64(offset + WordSize), DataLen(data)) THEN Panic
    ELSE LET length == WordAt(data, offset)
             contentStart == O64(offset + WordSize)
             clamped == IF O64(contentStart + length) > DataLen(data)
                        THEN DataLen(data) - contentStart
                        ELSE length
         IN  IF ~MakeOk(clamped) THEN Panic
             ELSE IF ~SliceInRange(contentStart, O64(contentStart + clamped), DataLen(data))
                  THEN Panic
             ELSE <<"bytes", clamped>>

\* The elements the loop of abi.go 303-310 appends before it breaks.
RECURSIVE StaticElements(_, _, _, _)
StaticElements(data, elemOffset, count, i) ==
    IF i >= count THEN i
    ELSE IF O64(O64(elemOffset + i * WordSize) + WordSize) > DataLen(data) THEN i
    ELSE StaticElements(data, elemOffset, count, i + 1)

\* abi.go 277-314: decodeDynamicArray of static elements.
decodeDynamicArray(data, offset) ==
    IF O64(offset + WordSize) > DataLen(data) THEN <<"nil", 0>>
    ELSE IF ~SliceInRange(offset, O64(offset + WordSize), DataLen(data)) THEN Panic
    ELSE LET count == WordAt(data, offset)
         IN  IF count = 0 THEN <<"array", 0>>
             ELSE IF ~MakeOk(count) THEN Panic
             ELSE <<"array", StaticElements(data, O64(offset + WordSize), count, 0)>>

\* abi.go 229-250.
decodeDynamicValue(typ, data, offset) ==
    IF O64(offset + WordSize) > DataLen(data) THEN <<"nil", 0>>
    ELSE IF typ = "uint256[]" THEN decodeDynamicArray(data, offset)
    ELSE decodeDynamicBytes(data, offset)

\* abi.go 196-225 and 352-376: a static value is the word, or topic, it is
\* decoded from.
decodeStaticValue(word) == <<"word", word>>

decodeTopicValue(topic) == <<"topic", topic>>

\* abi.go 175-178 and 120-123: the key of a parameter without a name.
DataName(param, i) == IF param.name = "" THEN "data" \o ToString(i) ELSE param.name

IndexedName(input, topicIdx) ==
    IF input.name = "" THEN "arg" \o ToString(topicIdx) ELSE input.name

\* abi.go 165-193: decodeDataParams from parameter i (counted from 0) on,
\* writing into the map out; panicked when a value panics.
RECURSIVE decodeDataParams(_, _, _, _)
decodeDataParams(data, params, i, out) ==
    IF i >= Len(params) THEN [panicked |-> FALSE, map |-> out]
    ELSE IF i * WordSize + WordSize > DataLen(data) THEN [panicked |-> FALSE, map |-> out]
    ELSE LET param == params[i + 1]
             word == WordAt(data, i * WordSize)
             val == IF isDynamic(param.type)
                    THEN decodeDynamicValue(param.type, data, word)
                    ELSE decodeStaticValue(word)
         IN  IF val = Panic THEN [panicked |-> TRUE, map |-> out]
             ELSE decodeDataParams(data, params, i + 1, Put(out, DataName(param, i), val))

\* abi.go 111-129: the loop over the indexed inputs from input k on;
\* topics[topicIdx] of the code is topics[topicIdx + 1] here.
RECURSIVE decodeIndexed(_, _, _, _, _)
decodeIndexed(inputs, topics, k, topicIdx, out) ==
    IF k > Len(inputs) THEN out
    ELSE IF ~inputs[k].indexed THEN decodeIndexed(inputs, topics, k + 1, topicIdx, out)
    ELSE IF topicIdx >= Len(topics) THEN out
    ELSE decodeIndexed(inputs, topics, k + 1, topicIdx + 1,
                       Put(out, IndexedName(inputs[k], topicIdx),
                           decodeTopicValue(topics[topicIdx + 1])))

IsDataParam(input) == ~input.indexed

\* abi.go 101-143: Decode once the definition is found: the decoded event's
\* Indexed, Data and Params maps, or a panic.
DecodeEvent(inputs, topics, data) ==
    LET indexed == decodeIndexed(inputs, topics, 1, 1, {})
        dataParams == SelectSeq(inputs, IsDataParam)
        skip == Len(dataParams) = 0 \/ Len(data) = 0
        dataOut == IF skip THEN [panicked |-> FALSE, map |-> {}]
                   ELSE decodeDataParams(data, dataParams, 0, {})
        out == IF skip THEN [panicked |-> FALSE, map |-> indexed]
               ELSE decodeDataParams(data, dataParams, 0, indexed)
    IN  [panicked |-> dataOut.panicked, indexed |-> indexed,
         data |-> dataOut.map, params |-> out.map]

\* The data of a cycle log: the head word and one more word.
LogData(log) == <<log.offset, 0>>

\* abi.go 91-143: Decode fails on a log without topics and on a topic[0] that
\* is not registered; otherwise it decodes the parameters, a dynamic one
\* through decodeDynamicValue (abi.go 183-186), and returns the decoded event.
ABIDecoder_Decode(registry, log) ==
    IF Len(log.topics) = 0 THEN "err"
    ELSE IF ~Lookup(registry, log.topics[1]) THEN "err"
    ELSE IF DecodeEvent(Inputs(log.topics[1]), log.topics, LogData(log)).panicked
         THEN "panic"
    ELSE "decoded"

DecodedInit ==
    /\ EarlyIdle
    /\ \E registry \in SUBSET Signatures, logs \in CycleLogs :
          wdec = [registry |-> registry, logs |-> logs, pos |-> 1, pc |-> "emit",
                  handled |-> <<>>, errs |-> 0, saved |-> FALSE]
    /\ gate = Unbuilt
    /\ bcast = Unbuilt
    /\ rdo = Unbuilt
    /\ replay = Unbuilt
    /\ fcur = Unbuilt
    /\ LastIdle

\* sonar.go 172-175: RegisterEvent, while the watcher runs.
Sonar_RegisterEvent ==
    /\ wdec.pc # "done"
    /\ \E sig \in Signatures \ wdec.registry :
          wdec' = [wdec EXCEPT !.registry = @ \cup {sig}]
    /\ UNCHANGED notDecoded

\* sonar.go 205-211: the poller passes the next log of the cycle to the event
\* callback WatchDecoded installed: a log that does not decode is skipped,
\* the handler is called with the decoded event otherwise.  A panic in
\* Decode is recovered nowhere and ends the process.
WatchDecoded_Callback ==
    /\ wdec.pc = "emit"
    /\ wdec.pos <= Len(wdec.logs)
    /\ LET decoded == ABIDecoder_Decode(wdec.registry, wdec.logs[wdec.pos])
       IN  wdec' = [wdec EXCEPT
              !.pos = @ + 1,
              !.pc = IF decoded = "panic" THEN "panic" ELSE @,
              !.handled = IF decoded = "decoded" THEN Append(@, wdec.pos) ELSE @]
    /\ UNCHANGED notDecoded

\* poller.go 175-182: after the last log the cycle saves the cursor; a
\* failed Save is reported to the error callback.
Poll_SaveCursor ==
    /\ wdec.pc = "emit"
    /\ wdec.pos > Len(wdec.logs)
    /\ \/ wdec' = [wdec EXCEPT !.pc = "done", !.saved = TRUE]
       \/ wdec' = [wdec EXCEPT !.pc = "done", !.errs = @ + 1]
    /\ UNCHANGED notDecoded

DecodedNext ==
    \/ Sonar_RegisterEvent
    \/ WatchDecoded_Callback
    \/ Poll_SaveCursor

\* The poller's task is scheduled.
DecodedSpec ==
    DecodedInit /\ [][DecodedNext]_vars /\ WF_vars(WatchDecoded_Callback \/ Poll_SaveCursor)

\* The log delivered by the step, when the step is a delivery.
Delivery == wdec'.pos = wdec.pos + 1

\* C30: a delivered log without topics, or with a topic[0] that is not
\* registered, is not passed to the decoded handler and causes no error
\* callback, and the cycle goes on to save the cursor; a delivered log whose
\* topic[0] is registered at that time is passed to the handler once, so that
\* the handler gets the logs in delivery order.
C30_SkipUndecodable ==
    /\ [][Delivery =>
            /\ wdec'.errs = wdec.errs
            /\ wdec'.handled =
                  (IF wdec.logs[wdec.pos].topics # <<>>
                        /\ wdec.logs[wdec.pos].topics[1] \in wdec.registry
                     THEN Append(wdec.handled, wdec.pos)
                     ELSE wdec.handled)]_vars
    /\ [](\A i, j \in 1 .. Len(wdec.handled) : i < j => wdec.handled[i] < wdec.handled[j])
    /\ [](wdec.pc = "done" => wdec.pos = Len(wdec.logs) + 1)
    /\ <>(wdec.pc = "done")

\* -------------------------------------------------------- ABIDecoder.Decode

\* How many parameters an event definition has, how many topics a log has
\* and how many 32-byte words its data.
MaxParams == 2

MaxTopics == 3

MaxWords == 3

\* abi.go 120-123, 175-178: parameter names; "" is a parameter without a
\* name, for which Decode makes up "arg<i>" or "data<i>".
Names == {"", "x", "data0"}

\* The words of log.Data: read as an offset, a length or a count they are
\* zero, one word, or a value near the largest uint64.
Words == {0, WordSize, OffsetMod - WordSize \div 2}

\* Definitions whose parameters are static and differ in name and in being
\* indexed, and definitions whose parameters are unnamed data parameters and
\* differ in type.
NamedParams == [name : Names, type : {"uint256"}, indexed : BOOLEAN]

TypedParams == [name : {""}, type : {"uint256", "bytes", "uint256[]"}, indexed : {FALSE}]

EventDefs ==
    UNION {[1 .. n -> NamedParams] \cup [1 .. n -> TypedParams] : n \in 0 .. MaxParams}

\* The topics of a log whose topic[0] is the signature hash of the
\* definition, and its data.
TopicsOf(n) == [i \in 1 .. n |-> i]

Blobs == UNION {[1 .. n -> Words] : n \in 0 .. MaxWords}

NoEvent == [panicked |-> FALSE, indexed |-> {}, data |-> {}, params |-> {}]

\* decoder/abi.go 26-34: one definition is registered; a log with its
\* signature hash arrives.
DecodeInit ==
    /\ EarlyIdle
    /\ MidIdle
    /\ reg = Unbuilt
    /\ hand = Unbuilt
    /\ head = Unbuilt
    /\ ws = Unbuilt
    /\ wall = Unbuilt
    /\ \E inputs \in EventDefs, n \in 1 .. MaxTopics, data \in Blobs :
          dec = [inputs |-> inputs, topics |-> TopicsOf(n), data |-> data,
                 pc |-> "call", event |-> NoEvent]

\* abi.go 91-143: Decode(log) returns the decoded event, or panics.
Decoder_Decode ==
    /\ dec.pc = "call"
    /\ LET event == DecodeEvent(dec.inputs, dec.topics, dec.data)
       IN  dec' = [dec EXCEPT !.pc = IF event.panicked THEN "panicked" ELSE "returned",
                              !.event = event]
    /\ UNCHANGED notDecode

DecodeNext == Decoder_Decode

DecodeSpec == DecodeInit /\ [][DecodeNext]_vars

\* C31: in every decoded event the keys of Indexed and of Data are disjoint,
\* and Params is the union of the two maps, with the same values, whatever
\* the names of the definition's parameters.
C31_ParamsUnion ==
    dec.pc = "returned" =>
        /\ Keys(dec.event.indexed) \cap Keys(dec.event.data) = {}
        /\ dec.event.params = dec.event.indexed \cup dec.event.data

\* The smaller of two numbers.
Least(a, b) == IF a < b THEN a ELSE b

\* The value of a dynamic parameter whose head word is offset, clamped to
\* the bytes of the blob that follow its length word; nothing when the
\* length word itself is past the end.  No sum wraps here.
Clamped(typ, data, offset) ==
    IF offset + WordSize > DataLen(data) THEN <<"nil", 0>>
    ELSE LET declared == WordAt(data, offset)
             left == DataLen(data) - (offset + WordSize)
         IN  IF typ = "uint256[]" THEN <<"array", Least(declared, left \div WordSize)>>
             ELSE <<"bytes", Least(declared, left)>>

\* The data parameters of the definition that Decode reads: parameter i
\* (counted from 0) has its head word in the blob.
HeadsRead == {i \in 0 .. Len(dec.inputs) - 1 : i * WordSize + WordSize <= DataLen(dec.data)}

\* C32: Decode does not panic, whatever the data of the log; a dynamic
\* parameter whose offset, length or count runs past the end of the data is
\* decoded to the value clamped to the bytes there are.
C32_NeverPanics ==
    /\ dec.pc # "panicked"
    /\ dec.pc = "returned" /\ dec.inputs \in Seq(TypedParams) =>
          \A i \in HeadsRead :
             isDynamic(dec.inputs[i + 1].type) =>
                <<DataName(dec.inputs[i + 1], i),
                  Clamped(dec.inputs[i + 1].type, dec.data, WordAt(dec.data, i * WordSize))>>
                   \in dec.event.data

\* --------------------------------------------- chain.Registry, Sonar.AddChain

\* How many tasks call AddChain, how many calls are made in all, and how many
\* driver objects there are for one chain id.
NumAdders == 2

MaxAdds == 3

MaxDrivers == 2

Adders == 1 .. NumAdders

Drivers == [id : Chains, obj : 1 .. MaxDrivers]

NoDriver == [id |-> "", obj |-> 0]

\* An error value: its text and the error it wraps (%w), if any.
NilError == [text |-> "", wraps |-> ""]

\* part_003 33-34.
ErrChainAlreadyRegistered == [text |-> "sonar: chain already registered", wraps |-> ""]

\* part_009 42: fmt.Errorf("chain: %q already registered", id) wraps nothing.
RegisterError == [text |-> "chain: already registered", wraps |-> ""]

\* errors.Is(err, target).
Is(err, target) == err = target \/ err.wraps = target.text

\* part_009 41: the id is in r.chains.
Registered(chains, id) == chains[id] # NoDriver

\* part_009 27-32: NewRegistry; no AddChain call is in progress.
RegistryInit ==
    /\ EarlyIdle
    /\ MidIdle
    /\ dec = Unbuilt
    /\ hand = Unbuilt
    /\ head = Unbuilt
    /\ ws = Unbuilt
    /\ wall = Unbuilt
    /\ reg = [chains |-> [id \in Chains |-> NoDriver],
              pc |-> [t \in Adders |-> "idle"],
              arg |-> [t \in Adders |-> NoDriver],
              ret |-> [t \in Adders |-> NilError],
              oks |-> [id \in Chains |-> 0],
              adds |-> 0]

\* sonar.go 68-69: task t calls AddChain(c).
Sonar_AddChain(t) ==
    /\ reg.pc[t] = "idle"
    /\ reg.adds < MaxAdds
    /\ \E c \in Drivers :
          reg' = [reg EXCEPT !.pc[t] = "register", !.arg[t] = c, !.adds = @ + 1]
    /\ UNCHANGED notRegistry

\* part_009 36-46: Register, all of it under r.mu; AddChain returns what it
\* returns.
Registry_Register(t) ==
    /\ reg.pc[t] = "register"
    /\ LET c == reg.arg[t]
       IN  IF Registered(reg.chains, c.id)
           THEN reg' = [reg EXCEPT !.pc[t] = "idle", !.ret[t] = RegisterError]
           ELSE reg' = [reg EXCEPT !.pc[t] = "idle", !.ret[t] = NilError,
                                   !.chains[c.id] = c, !.oks[c.id] = @ + 1]
    /\ UNCHANGED notRegistry

RegistryNext == \E t \in Adders : Sonar_AddChain(t) \/ Registry_Register(t)

RegistrySpec == RegistryInit /\ [][RegistryNext]_vars

\* Task t returns from AddChain in the step.
AddReturns(t) == reg.pc[t] = "register" /\ reg'.pc[t] = "idle"

\* C33: an AddChain whose driver's id is registered fails with
\* ErrChainAlreadyRegistered and leaves the registry as it was, the first
\* driver bound to the id; any other AddChain succeeds and binds its driver;
\* so of the calls for one id, concurrent or not, exactly one succeeds.
C33_AddChainOnce ==
    /\ [][\A t \in Adders :
            AddReturns(t) =>
               IF reg.chains[reg.arg[t].id] # NoDriver
               THEN /\ Is(reg'.ret[t], ErrChainAlreadyRegistered)
                    /\ reg'.chains = reg.chains
               ELSE /\ reg'.ret[t] = NilError
                    /\ reg'.chains = [reg.chains EXCEPT ![reg.arg[t].id] = reg.arg[t]]]_vars
    /\ [](\A id \in Chains :
            /\ reg.oks[id] <= 1
            /\ reg.oks[id] = 1 <=> reg.chains[id] # NoDriver)

\* ------------------------------------------- the ranges of one poller run

\* The step is the end of a poll cycle that saved the cursor (poller.go
\* 174-179).
SavingCycle == pc = "emit" /\ pc' = "select" /\ cb' = "none"

\* C34: a poll cycle that saves the cursor has fetched a range that starts
\* one block after the range of the run's previous saving cycle, the
\* value it writes is the `to` of its range, and after it the in-memory from
\* is the persisted value + 1; the persisted value grows strictly from one
\* saving cycle of the run to the next.
C34_NoGapNoOverlap ==
    [][SavingCycle =>
          /\ cursorVal' = toBlock
          /\ fromBlock' = cursorVal' + 1
          /\ savedRun >= 0 => fromBlock = savedRun + 1 /\ cursorVal' > savedRun]_vars

\* ----------------------------------------------- Shutdown against Watch

\* C35: once Shutdown has set the shutdown flag, no Watch call writes the
\* watchers map or starts a poller task, and a Watch call that had not
\* recorded its watcher by then returns ErrShutdown.
C35_ShutdownBarrier ==
    [][(shutdown /\ shutdown') =>
          /\ watchers' => watchers
          /\ pc' = "spawned" => pc = "spawned"
          /\ (watchPc = "built" /\ watchPc' # "built") => watchRet' = "ErrShutdown"]_vars

\* -------------------------------------------- Watch after a watcher ended

\* C36: on a live instance a Watch call is refused with ErrAlreadyRunning
\* exactly when the chain's watcher task is started and has not returned;
\* once the task has returned, a Watch call is accepted.
C36_BusyOnlyWhileRunning ==
    [][(watchPc = "built" /\ watchPc' # "built" /\ ~shutdown /\ runs' = runs) =>
          (watchRet' = "ErrAlreadyRunning" <=> pc \in Running \cup {"spawned"})]_vars

\* ------------------------------------- the handler calls of several watchers

\* How many logs a FetchLogs returns at most, and how many poll cycles a
\* watcher runs.
MaxHandlerLogs == 2

MaxCycles == 2

\* poller.go 186-188 and sonar.go 93-98: emitEvent calls fn(log), and fn
\* calls finalHandler(log), as plain calls: the task goes on when the call
\* has returned.
CallDetached(w) == TRUE

CallReturned(w) == w.inCall = {}

\* sonar.go 53-64: no chain is watched.
HandlerInit ==
    /\ EarlyIdle
    /\ MidIdle
    /\ dec = Unbuilt
    /\ reg = Unbuilt
    /\ head = Unbuilt
    /\ ws = Unbuilt
    /\ wall = Unbuilt
    /\ hand = [c \in Chains |->
                 [pc |-> "none", tasks |-> 0, cycle |-> 0, logs |-> 0, next |-> 1,
                  inCall |-> {}, stage |-> "none", returned |-> 0, saved |-> 0]]

\* sonar.go 75-115: Watch(c): refused when the chain has a watcher, else
\* the poller is recorded and go p.Watch() starts its one task.
Handler_Watch(c) ==
    /\ hand[c].pc = "none"
    /\ hand' = [hand EXCEPT ![c].pc = "fetch", ![c].tasks = @ + 1]
    /\ UNCHANGED notHandler

\* poller.go 164-167: the poll cycle of chain c's watcher fetches its logs.
Handler_Fetch(c) ==
    /\ hand[c].pc = "fetch"
    /\ hand[c].cycle < MaxCycles
    /\ CallReturned(hand[c])
    /\ \E n \in 0 .. MaxHandlerLogs :
          hand' = [hand EXCEPT ![c].pc = "emit", ![c].cycle = @ + 1, ![c].logs = n,
                               ![c].next = 1, ![c].returned = 0]
    /\ UNCHANGED notHandler

\* poller.go 169-171, 182-189, sonar.go 93-94: emitEvent passes the next log
\* to the callback, which enters the middleware pipeline.
Handler_Call(c) ==
    /\ hand[c].pc = "emit"
    /\ hand[c].next <= hand[c].logs
    /\ CallReturned(hand[c])
    /\ hand' = [hand EXCEPT ![c].inCall = @ \cup {hand[c].next}, ![c].next = @ + 1,
                            ![c].stage = "pipeline"]
    /\ UNCHANGED notHandler

\* ratelimit.go 59-64, sonar.go 218-224: the pipeline reaches the user
\* handler, unless a middleware drops the log.
Handler_User(c) ==
    /\ hand[c].inCall # {}
    /\ hand[c].stage = "pipeline"
    /\ hand' = [hand EXCEPT ![c].stage = "handler"]
    /\ UNCHANGED notHandler

\* sonar.go 94-98: finalHandler returns, and with it the callback and
\* emitEvent.
Handler_Return(c) ==
    /\ hand[c].inCall # {}
    /\ \E k \in hand[c].inCall :
          hand' = [hand EXCEPT ![c].inCall = @ \ {k}, ![c].returned = @ + 1,
                               ![c].stage = "none"]
    /\ UNCHANGED notHandler

\* poller.go 174-179: after the loop the cycle saves the cursor.
Handler_Save(c) ==
    /\ hand[c].pc = "emit"
    /\ hand[c].next > hand[c].logs
    /\ CallReturned(hand[c])
    /\ hand' = [hand EXCEPT ![c].pc = "fetch", ![c].saved = @ + 1]
    /\ UNCHANGED notHandler

HandlerNext ==
    \E c \in Chains :
       \/ Handler_Watch(c)
       \/ Handler_Fetch(c)
       \/ Handler_Call(c)
       \/ Handler_User(c)
       \/ Handler_Return(c)
       \/ Handler_Save(c)

HandlerSpec == HandlerInit /\ [][HandlerNext]_vars

\* C37: for the watcher of one chain at most one call of the pipeline and
\* handler is in progress; the call for a log begins when the calls for the
\* logs before it have returned, and the cycle saves the cursor when the calls
\* for all its logs have returned; the watcher has one task.
C37_Serialized ==
    /\ [](\A c \in Chains : Cardinality(hand[c].inCall) <= 1 /\ hand[c].tasks <= 1)
    /\ [][\A c \in Chains :
            /\ hand'[c].next = hand[c].next + 1 => hand[c].returned = hand[c].next - 1
            /\ hand'[c].saved = hand[c].saved + 1 => hand[c].returned = hand[c].logs]_vars

\* C37 witness: the handler calls of the watchers of two chains overlap, each
\* for the second log of its cycle.
C37_Witness ==
    /\ \A c \in Chains : hand[c].inCall = {2} /\ hand[c].returned = 1
    /\ \E c \in Chains : hand[c].stage = "handler"
    /\ \E c \in Chains : hand[c].stage = "pipeline"

\* ----------------------------------------------------------- poller progress

\* The chain grows by a block.
Chain_Mine ==
    /\ head < MaxLatest
    /\ head' = head + 1
    /\ UNCHANGED notHead

\* One process that does not crash and is not shut down, built with any of
\* the configurations, on a chain whose head LatestBlock reports.
ProgressInit ==
    /\ cursorVal \in 0 .. MaxSeed
    /\ batchSize \in BatchSizes
    /\ confirmations \in ConfirmationValues
    /\ retry \in RetryOptions
    /\ PollerStart
    /\ DriverIdle
    /\ BreakerIdle
    /\ CallersIdle
    /\ PipelineIdle
    /\ MidIdle
    /\ dec = Unbuilt
    /\ reg = Unbuilt
    /\ hand = Unbuilt
    /\ ws = Unbuilt
    /\ wall = Unbuilt
    /\ head \in 0 .. MaxLatest

\* poller.go 96-102 on that chain: a LatestBlock that succeeds returns the head.
Progress_StartLatest == Watch_StartLatest /\ (rpc' = "ok" => startLatest' = head)

\* poller.go 139-157 on that chain.
Progress_Latest ==
    /\ Poll_Latest
    /\ rpc' = "ok" =>
          IF head <= confirmations \/ fromBlock > head - confirmations
          THEN pc' = "select"
          ELSE pc' = "fetch" /\ latest' = head

ProgressStep ==
    \/ Watch_Enter
    \/ Watch_Load
    \/ Progress_StartLatest
    \/ Progress_Latest
    \/ Poll_Fetch
    \/ Poll_Emit
    \/ Poll_Save
    \/ Loop_Tick

ProgressNext ==
    \/ SonarWatch_Enter
    \/ SonarWatch_Record
    \/ SonarWatch_Go
    \/ Watch_Enter
    \/ Watch_Load
    \/ Progress_StartLatest
    \/ Progress_Latest
    \/ Poll_Fetch
    \/ Poll_Emit
    \/ Poll_Save
    \/ Loop_Tick
    \/ Chain_Mine

\* The Go scheduler: the poller's goroutine steps when it can, its RPC and
\* cursor calls return and its ticker keeps firing.
ProgressSpec == ProgressInit /\ [][ProgressNext]_vars /\ WF_vars(ProgressStep)

\* LatestBlock, FetchLogs, cursor.Load and cursor.Save succeed.
CallsSucceed == rpc # "fail" /\ cb # "err" /\ exitWhy = "none"

\* C38: when the calls succeed and Stop is not called, every block from the
\* run's start block up to head - confirmations is fetched in the end, its
\* logs passed on, and the cursor reaches head - confirmations, for every
\* batch size and confirmations; a cycle that saves moves from upwards.
C38_Progress ==
    /\ [][SavingCycle => fromBlock' > fromBlock]_vars
    /\ \A l \in 0 .. MaxLatest :
          []CallsSucceed =>
             ((head = l /\ startBlock >= 0 /\ startBlock <= l - confirmations)
                ~> (/\ cursorVal >= l - confirmations
                    /\ fromBlock > l - confirmations
                    /\ \A b \in startBlock .. (l - confirmations) : LogsAt(b) \subseteq emitted))

\* ------------------------------ transport.WebSocket: Call, Subscribe, readLoop

\* How many tasks call the transport, how many calls are made in all, and how
\* many notifications the server sends.
NumWsCallers == 2

MaxWsCalls == 3

MaxNotes == 1

\* circuit.go 165 and 217: the capacities of a call's channel and of a
\* subscription's.
CallCap == 1

SubCap == 64

WsCallers == 1 .. NumWsCallers

WsMethods == {"eth_getLogs", "eth_subscribe"}

\* What the server puts on the connection.  A JSON object is a record of the
\* members it has.  The response to request id carries the id and either a
\* result or an error; a notification carries no id.
ResultOf(id) == <<"result", id>>

Response(id) == [jsonrpc |-> "2.0", id |-> id, result |-> ResultOf(id)]

ErrorResponse(id) == [jsonrpc |-> "2.0", id |-> id, error |-> <<"error", id>>]

Notification(n) ==
    [jsonrpc |-> "2.0", method |-> "eth_subscription",
     params |-> [subscription |-> "0x1", result |-> <<"log", n>>]]

NoRaw == <<"null", 0>>

NoObject == [null |-> TRUE]

\* circuit.go 264-271: json.Unmarshal into the envelope; a member the message
\* does not have leaves the field at its zero value.
Envelope(message) ==
    [ID |-> IF "id" \in DOMAIN message THEN message.id ELSE 0,
     Method |-> IF "method" \in DOMAIN message THEN message.method ELSE "",
     Params |-> IF "params" \in DOMAIN message THEN message.params ELSE NoObject]

\* circuit.go 187-190: json.Unmarshal into a jsonRPCResponse (http.go 35-40).
UnmarshalResponse(data) ==
    [ID |-> IF "id" \in DOMAIN data THEN data.id ELSE 0,
     Result |-> IF "result" \in DOMAIN data THEN data.result ELSE NoRaw,
     Error |-> IF "error" \in DOMAIN data THEN data.error ELSE NoRaw]

\* A channel: what it buffers and its capacity.
Chan(cap) == [buf |-> <<>>, cap |-> cap]

\* select { case ch <- v: default: }: a full channel drops v.
Offer(ch, v) == IF Len(ch.buf) < ch.cap THEN [ch EXCEPT !.buf = Append(@, v)] ELSE ch

\* circuit.go 273-283: a message with an id goes to the channel under that id.
RouteByID(subs, message) ==
    LET id == Envelope(message).ID
    IN  IF id # 0 /\ id \in DOMAIN subs
        THEN [subs EXCEPT ![id] = Offer(@, message)]
        ELSE subs

\* circuit.go 285-295: the params of an eth_subscription message go to every
\* channel in ws.subs.
NotifyAll(subs, message) ==
    IF Envelope(message).Method = "eth_subscription"
    THEN [i \in DOMAIN subs |-> Offer(subs[i], Envelope(message).Params)]
    ELSE subs

Without(subs, id) == [i \in DOMAIN subs \ {id} |-> subs[i]]

\* What a Call returned: the result or the error, and the data it read from
\* its channel.
NoReturn == [kind |-> "none", value |-> NoRaw, data |-> NoObject]

\* circuit.go 123-129 and 132-144: NewWebSocket, and the connection dialled
\* with readLoop started; no call is in progress.
WsInit ==
    /\ EarlyIdle
    /\ MidIdle
    /\ dec = Unbuilt
    /\ reg = Unbuilt
    /\ hand = Unbuilt
    /\ head = Unbuilt
    /\ wall = Unbuilt
    /\ ws = [nextID |-> 0,
             subs |-> <<>>,
             closed |-> FALSE,
             pc |-> [c \in WsCallers |-> "idle"],
             method |-> [c \in WsCallers |-> ""],
             id |-> [c \in WsCallers |-> 0],
             ret |-> [c \in WsCallers |-> NoReturn],
             issued |-> <<>>,
             calls |-> 0,
             requests |-> {},
             inbox |-> <<>>,
             subscribed |-> FALSE,
             notes |-> 0,
             got |-> 0]

\* circuit.go 147-162 (and 201-206 for Subscribe): caller c begins a call and
\* takes its id from the counter.
Call_NextID(c) ==
    /\ ws.pc[c] = "idle"
    /\ ws.calls < MaxWsCalls
    /\ \E m \in WsMethods :
          ws' = [ws EXCEPT !.pc[c] = "register", !.method[c] = m,
                           !.nextID = @ + 1, !.id[c] = ws.nextID + 1,
                           !.issued = Append(@, ws.nextID + 1),
                           !.ret[c] = NoReturn, !.calls = @ + 1]
    /\ UNCHANGED notWs

\* circuit.go 164-168: the call's channel is put in ws.subs under its id.
Call_Register(c) ==
    /\ ws.pc[c] = "register"
    /\ ws' = [ws EXCEPT !.pc[c] = "write",
                        !.subs = (ws.id[c] :> Chan(CallCap)) @@ @]
    /\ UNCHANGED notWs

\* circuit.go 176-181 with the deferred delete of 170-174: the request is
\* written; on a closed connection the write fails.
Call_Write(c) ==
    /\ ws.pc[c] = "write"
    /\ IF ws.closed
       THEN ws' = [ws EXCEPT !.pc[c] = "idle",
                             !.ret[c] = [NoReturn EXCEPT !.kind = "write"],
                             !.subs = Without(@, ws.id[c])]
       ELSE ws' = [ws EXCEPT !.pc[c] = "select",
                             !.requests = @ \cup {[id |-> ws.id[c], method |-> ws.method[c]]}]
    /\ UNCHANGED notWs

\* circuit.go 183-198 with the deferred delete: the call returns what it reads
\* from its channel.
Call_Receive(c) ==
    /\ ws.pc[c] = "select"
    /\ ws.subs[ws.id[c]].buf # <<>>
    /\ LET data == Head(ws.subs[ws.id[c]].buf)
           rpcResp == UnmarshalResponse(data)
           ret == IF rpcResp.Error # NoRaw
                  THEN [kind |-> "rpc", value |-> rpcResp.Error, data |-> data]
                  ELSE [kind |-> "result", value |-> rpcResp.Result, data |-> data]
       IN  ws' = [ws EXCEPT !.pc[c] = IF ret.kind = "result" /\ ws.method[c] = "eth_subscribe"
                                      THEN "subscribe" ELSE "idle",
                            !.ret[c] = ret,
                            !.subs = Without(@, ws.id[c])]
    /\ UNCHANGED notWs

\* circuit.go 184-185 and 195-196 with the deferred delete: the context is
\* done, or the transport is closed.
Call_GiveUp(c) ==
    /\ ws.pc[c] = "select"
    /\ \E kind \in {"ctx"} \cup (IF ws.closed THEN {"closed"} ELSE {}) :
          ws' = [ws EXCEPT !.pc[c] = "idle",
                           !.ret[c] = [NoReturn EXCEPT !.kind = kind],
                           !.subs = Without(@, ws.id[c])]
    /\ UNCHANGED notWs

\* circuit.go 217-232: Subscribe puts the subscription's channel in ws.subs
\* under an id of its own.
Subscribe_Register(c) ==
    /\ ws.pc[c] = "subscribe"
    /\ ws' = [ws EXCEPT !.pc[c] = "idle",
                        !.nextID = @ + 1,
                        !.issued = Append(@, ws.nextID + 1),
                        !.subs = ((ws.nextID + 1) :> Chan(SubCap)) @@ @]
    /\ UNCHANGED notWs

\* The subscriber reads a notification from the channel Subscribe returned.
Subscriber_Receive ==
    /\ \E i \in DOMAIN ws.subs :
          /\ ws.subs[i].cap = SubCap
          /\ ws.subs[i].buf # <<>>
          /\ ws' = [ws EXCEPT !.subs[i].buf = Tail(@), !.got = @ + 1]
    /\ UNCHANGED notWs

\* The server answers a request it has received, in any order, with a result
\* or an error; answering eth_subscribe with a result starts the subscription.
Server_Respond ==
    /\ \E r \in ws.requests, ok \in BOOLEAN :
          ws' = [ws EXCEPT !.requests = @ \ {r},
                           !.inbox = Append(@, IF ok THEN Response(r.id) ELSE ErrorResponse(r.id)),
                           !.subscribed = @ \/ (ok /\ r.method = "eth_subscribe")]
    /\ UNCHANGED notWs

\* The server sends a notification of the subscription.
Server_Notify ==
    /\ ws.subscribed
    /\ ws.notes < MaxNotes
    /\ ws' = [ws EXCEPT !.notes = @ + 1, !.inbox = Append(@, Notification(ws.notes + 1))]
    /\ UNCHANGED notWs

\* circuit.go 248-296: one turn of readLoop with a message read.
ReadLoop_Message ==
    /\ ~ws.closed
    /\ ws.inbox # <<>>
    /\ LET message == Head(ws.inbox)
       IN  ws' = [ws EXCEPT !.inbox = Tail(@),
                            !.subs = NotifyAll(RouteByID(@, message), message)]
    /\ UNCHANGED notWs

\* circuit.go 236-244 and 255-261: Close, or a read that fails, closes the
\* transport; readLoop ends.
WebSocket_Close ==
    /\ ~ws.closed
    /\ ws' = [ws EXCEPT !.closed = TRUE]
    /\ UNCHANGED notWs

WsNext ==
    \/ \E c \in WsCallers :
          \/ Call_NextID(c)
          \/ Call_Register(c)
          \/ Call_Write(c)
          \/ Call_Receive(c)
          \/ Call_GiveUp(c)
          \/ Subscribe_Register(c)
    \/ Subscriber_Receive
    \/ Server_Respond
    \/ Server_Notify
    \/ ReadLoop_Message
    \/ WebSocket_Close

WsSpec == WsInit /\ [][WsNext]_vars

\* C39: the ids one transport hands out are pairwise distinct, and what a Call
\* returns, result or RPC error, it has read from the response whose id is the
\* id of its own request, never from another call's response and never from an
\* eth_subscription notification.
C39_OwnResponseOnly ==
    /\ \A i, j \in 1 .. Len(ws.issued) : i # j => ws.issued[i] # ws.issued[j]
    /\ \A c \in WsCallers :
          ws.ret[c].kind \in {"result", "rpc"} =>
             /\ "id" \in DOMAIN ws.ret[c].data
             /\ ws.ret[c].data.id = ws.id[c]
             /\ "method" \notin DOMAIN ws.ret[c].data
             /\ ws.ret[c].data \in {Response(ws.id[c]), ErrorResponse(ws.id[c])}

\* ------------------------------------------------------------ Sonar.WatchAll

\* How many tasks call Watch or WatchAll, and how many calls are made in all.
NumWatchTasks == 2

MaxWatchCalls == 3

WatchTasks == 1 .. NumWatchTasks

\* part_009 57-65: registry.All() ranges over the map, in any order.
All(chains) ==
    {s \in [1 .. Cardinality(chains) -> chains] :
        \A i, j \in 1 .. Cardinality(chains) : i # j => s[i] # s[j]}

\* A watcher's task exists and has not exited.
IsRunning(w, c) == w.poller[c] \in {"spawned", "running"}

\* sonar.go 53-64: New, with some chains added; nothing is watched.
WatchAllInit ==
    /\ EarlyIdle
    /\ MidIdle
    /\ dec = Unbuilt
    /\ reg = Unbuilt
    /\ hand = Unbuilt
    /\ head = Unbuilt
    /\ ws = Unbuilt
    /\ \E chains \in SUBSET Chains :
          wall = [chains |-> chains,
                  watchers |-> {},
                  poller |-> [c \in Chains |-> "none"],
                  tasks |-> [c \in Chains |-> 0],
                  shutdown |-> FALSE,
                  toStop |-> {},
                  pc |-> [t \in WatchTasks |-> "idle"],
                  kind |-> [t \in WatchTasks |-> ""],
                  todo |-> [t \in WatchTasks |-> <<>>],
                  all |-> [t \in WatchTasks |-> {}],
                  started |-> [t \in WatchTasks |-> {}],
                  ret |-> [t \in WatchTasks |-> "none"],
                  calls |-> 0]

\* sonar.go 68-70: AddChain of a chain that is not registered.
WatchAll_AddChain ==
    /\ \E c \in Chains \ wall.chains :
          wall' = [wall EXCEPT !.chains = @ \cup {c}]
    /\ UNCHANGED notWatchAll

\* sonar.go 75: task t calls Watch for one chain.
WatchAll_WatchOne(t) ==
    /\ wall.pc[t] = "idle"
    /\ wall.calls < MaxWatchCalls
    /\ \E c \in Chains :
          wall' = [wall EXCEPT !.pc[t] = "enter", !.kind[t] = "Watch",
                               !.todo[t] = <<c>>, !.all[t] = {c},
                               !.started[t] = {},
                               !.ret[t] = "none", !.calls = @ + 1]
    /\ UNCHANGED notWatchAll

\* sonar.go 118-119: task t calls WatchAll, which takes the registered chains
\* from registry.All().
WatchAll_Begin(t) ==
    /\ wall.pc[t] = "idle"
    /\ wall.calls < MaxWatchCalls
    /\ \E order \in All(wall.chains) :
          wall' = [wall EXCEPT !.pc[t] = "enter", !.kind[t] = "WatchAll",
                               !.todo[t] = order, !.all[t] = wall.chains,
                               !.started[t] = {},
                               !.ret[t] = "none", !.calls = @ + 1]
    /\ UNCHANGED notWatchAll

\* sonar.go 76-86: Watch for the next chain: the shutdown check under the mutex
\* and the registry lookup; an error of Watch is what WatchAll returns
\* (sonar.go 120-122).
WatchAll_Check(t) ==
    /\ wall.pc[t] = "enter"
    /\ wall.todo[t] # <<>>
    /\ IF wall.shutdown
       THEN wall' = [wall EXCEPT !.pc[t] = "idle", !.ret[t] = "ErrShutdown"]
       ELSE IF Head(wall.todo[t]) \notin wall.chains
            THEN wall' = [wall EXCEPT !.pc[t] = "idle", !.ret[t] = "ErrChainNotFound"]
            ELSE wall' = [wall EXCEPT !.pc[t] = "built"]
    /\ UNCHANGED notWatchAll

\* sonar.go 104-110: under the mutex, an existing entry returns
\* ErrAlreadyRunning, otherwise the poller is recorded.
WatchAll_Record(t) ==
    /\ wall.pc[t] = "built"
    /\ IF Head(wall.todo[t]) \in wall.watchers
       THEN wall' = [wall EXCEPT !.pc[t] = "idle", !.ret[t] = "ErrAlreadyRunning"]
       ELSE wall' = [wall EXCEPT !.pc[t] = "recorded",
                                 !.watchers = @ \cup {Head(wall.todo[t])}]
    /\ UNCHANGED notWatchAll

\* sonar.go 112-114: go p.Watch(); Watch returns nil.
WatchAll_Go(t) ==
    /\ wall.pc[t] = "recorded"
    /\ LET c == Head(wall.todo[t])
       IN  wall' = [wall EXCEPT !.pc[t] = "enter",
                                !.poller[c] = "spawned",
                                !.tasks[c] = @ + 1,
                                !.started[t] = @ \cup {c},
                                !.todo[t] = Tail(@)]
    /\ UNCHANGED notWatchAll

\* sonar.go 114 and 124: no chain is left; the call returns nil.
WatchAll_Return(t) ==
    /\ wall.pc[t] = "enter"
    /\ wall.todo[t] = <<>>
    /\ wall' = [wall EXCEPT !.pc[t] = "idle", !.ret[t] = "nil"]
    /\ UNCHANGED notWatchAll

\* poller.go 76-79: the watcher's task sets p.cancel.
WatchAll_PollerStart ==
    /\ \E c \in Chains :
          /\ wall.poller[c] = "spawned"
          /\ wall' = [wall EXCEPT !.poller[c] = "running"]
    /\ UNCHANGED notWatchAll

\* sonar.go 134-141: Shutdown sets the flag and copies the watchers map.
WatchAll_Shutdown ==
    /\ ~wall.shutdown
    /\ wall' = [wall EXCEPT !.shutdown = TRUE, !.toStop = wall.watchers]
    /\ UNCHANGED notWatchAll

\* sonar.go 143-148 and poller.go 126-136: Stop of a copied watcher, in any
\* order: a task that has set p.cancel is cancelled and exits; for any other
\* Stop does nothing.
WatchAll_Stop ==
    /\ \E c \in wall.toStop :
          wall' = [wall EXCEPT !.toStop = @ \ {c},
                               !.poller[c] = IF @ = "running" THEN "stopped" ELSE @]
    /\ UNCHANGED notWatchAll

WatchAllNext ==
    \/ WatchAll_AddChain
    \/ \E t \in WatchTasks :
          \/ WatchAll_WatchOne(t)
          \/ WatchAll_Begin(t)
          \/ WatchAll_Check(t)
          \/ WatchAll_Record(t)
          \/ WatchAll_Go(t)
          \/ WatchAll_Return(t)
    \/ WatchAll_PollerStart
    \/ WatchAll_Shutdown
    \/ WatchAll_Stop

WatchAllSpec == WatchAllInit /\ [][WatchAllNext]_vars

\* Task t returns from WatchAll in the step.
WatchAllReturns(t) ==
    wall.kind[t] = "WatchAll" /\ wall.pc[t] # "idle" /\ wall'.pc[t] = "idle"

\* C40: when WatchAll returns an error, no watcher that the call started is
\* running or recorded in the watchers map; when it returns nil, every chain
\* that was registered when it was called is recorded with exactly one watcher
\* task, running.
C40_AllOrNothing ==
    [][\A t \in WatchTasks :
          WatchAllReturns(t) =>
             IF wall'.ret[t] # "nil"
             THEN \A c \in wall.started[t] :
                     c \notin wall'.watchers /\ ~IsRunning(wall', c)
             ELSE \A c \in wall.all[t] :
                     /\ c \in wall'.watchers
                     /\ wall'.tasks[c] = 1
                     /\ IsRunning(wall', c)]_vars

====
